---- MODULE Spec2Model ----
(***************************************************************************)
(* Model of the market-data message bus: the lock-free ring buffer         *)
(* (ring_buffer.hpp), MessageBus::publish / process_messages / subscribe / *)
(* reset_counters (message_bus.cpp, message_bus.hpp) and the WebSocket     *)
(* sessions of the server (server.cpp).  Every load and store of an atomic *)
(* variable is one step, so that the interleavings of producer threads and *)
(* the consumer thread are the ones the program has; a handler or task of  *)
(* the io_context thread is one step.                                      *)
(***************************************************************************)
EXTENDS Integers, Sequences, FiniteSets, TLC

(***************************************************************************)
(* Bounds of the model.                                                    *)
(***************************************************************************)
\* log2 of the ring buffer's slot count (the program uses 2^10)
SizeLog2 == 2
\* number of publish calls made in one behaviour (caps sequence_)
MaxPublish == 6
\* number of subscribe calls made in one behaviour
MaxSubs == 2
\* number of publish calls made by the concurrent producers of SpecMP
MaxPublishMP == 4
\* number of publish calls made in one behaviour of SpecControl
MaxPublishControl == 5
\* number of publish calls made in one behaviour of SpecFault
MaxPublishFault == 4
\* number of publish calls made in one behaviour of SpecServer
MaxPublishServer == 2
\* number of publish calls made in one behaviour of SpecServerLive
MaxPublishServerLive == 2
\* number of publish calls made in one behaviour of SpecServerRace
MaxPublishServerRace == 1
\* number of publish calls made in one behaviour of SpecTrunc
MaxPublishTrunc == 2
\* number of publish calls made in one behaviour of SpecReset
MaxPublishReset == 5
\* number of publish calls made in one behaviour of SpecLifecycle
MaxPublishLife == 5
\* number of publish calls made in one behaviour of SpecRace
MaxPublishRace == 3
\* number of publish calls made in one behaviour of SpecRegion
MaxPublishRegion == 2
\* number of publish calls made in one behaviour of SpecRoute
MaxPublishRoute == 2

(***************************************************************************)
(* Program constants.                                                      *)
(***************************************************************************)
\* RingBuffer<MessageWrapper, DEFAULT_RING_BUFFER_SIZE>, scaled by SizeLog2
Size == 2 ^ SizeLog2
\* sizeof(MarketData::symbol)
SymbolCap == 16
\* sizeof(MarketData::source)
SourceCap == 32
\* modulus of std::size_t arithmetic (2^64 in the program, scaled down here)
SizeTModulus == 2 ^ 16

\* MessageBus::DEFAULT_RING_BUFFER_SIZE (market_data_types.hpp:131): the
\* number of slots of the ring buffer the bus places in its region, and
\* the default of the constructor's argument buffer_size
DEFAULT_RING_BUFFER_SIZE == 1024
\* ring_buffer.hpp:16
CACHE_LINE_SIZE == 64
\* sizeof(MessageWrapper): a 4-byte enum, padded to the alignment of the
\* union of MarketData (16 + 8 + 8 + 8 + 8 + 32 bytes)
SizeofMessageWrapper == 8 + 16 + 8 + 8 + 8 + 8 + 32
\* sizeof(std::atomic<std::size_t>) and alignof(std::max_align_t)
SizeofIndex == 8
MaxAlign == 16

\* n rounded up to a multiple of a
RoundUp(n, a) == ((n + a - 1) \div a) * a

\* sizeof(RingBuffer<MessageWrapper, DEFAULT_RING_BUFFER_SIZE>): the slots,
\* aligned as std::max_align_t, and the two indices (ring_buffer.hpp:100-102)
SizeofRingBuffer ==
    RoundUp(DEFAULT_RING_BUFFER_SIZE * SizeofMessageWrapper + 2 * SizeofIndex,
            MaxAlign)

\* the region size the test fixture computes (tests.cpp:32-39)
TestRegionBytes == RoundUp(SizeofRingBuffer, CACHE_LINE_SIZE)
\* the region size main passes (server.cpp:509)
ServerRegionBytes == 256 * 1024
\* the values of buffer_size the bus is constructed with: the two above and
\* the default argument
ConstructorSizes ==
    {DEFAULT_RING_BUFFER_SIZE, TestRegionBytes, ServerRegionBytes}

\* the producer threads; every specification but SpecMP runs the first only
AllProducers == {1, 2}
SingleProducer == {1}
Topics == {"market_data", "other"}
\* callbacks that return: the counting callbacks of the test fixtures
Callbacks == {1, 2}
\* a callback that throws std::runtime_error, as the one of CallbackExceptions
ThrowsStd == {3}
\* a callback that throws a value whose type does not derive from
\* std::exception (std::function accepts any callable)
ThrowsOther == {4}
\* the WebSocket sessions of the server and the closures they subscribe
Sessions == {1, 2}
\* the one session that connects in SpecServerLive
OneSession == {1}
Closure(s) == 10 + s
Closures == {Closure(s) : s \in Sessions}
SessionOf(cb) == cb - 10
DelayArgs == {-1, 0, 1}

Min(a, b) == IF a < b THEN a ELSE b
Max(a, b) == IF a > b THEN a ELSE b

(***************************************************************************)
(* Data.  A C string is the sequence of its bytes before the terminator.   *)
(***************************************************************************)
\* a copy that fills the whole array and leaves no room for the terminator
StrNCpy_full(src, cap) == SubSeq(src, 1, Min(Len(src), cap))

\* strncpy(dst, src, cap - 1); dst[cap - 1] = '\0'
StrNCpy(src, cap) == SubSeq(src, 1, Min(Len(src), cap - 1))

\* MessageWrapper() : memset(&data, 0, sizeof(data)); also a zero-filled slot
ZeroData ==
    [symbol |-> <<>>, price |-> 0, volume |-> 0, seq |-> 0,
     timestamp |-> 0, source |-> <<>>]

\* the MarketData values handed to publish
InputTicks ==
    {[symbol |-> <<1, 2>>, price |-> 100, volume |-> 10, seq |-> 0,
      timestamp |-> 7, source |-> <<3>>]}

\* the source of the ticks that are published under the topic "other"
OtherSource == <<5>>

\* for each topic the MarketData that is published under it
TopicTick ==
    [t \in Topics |->
       [symbol |-> <<1, 2>>, price |-> 100, volume |-> 10, seq |-> 0,
        timestamp |-> 7,
        source |-> IF t = "market_data" THEN <<3>> ELSE OtherSource]]

\* n bytes, none of them zero, pairwise different
Bytes(n) == [i \in 1..n |-> i]

\* the lengths of symbol and source in the ticks of LongTicks: strings that
\* fit with their terminator, and arrays filled to the last byte
LongLengths ==
    {<<2, SourceCap>>, <<SymbolCap - 1, SourceCap - 1>>,
     <<SymbolCap, 1>>, <<SymbolCap, SourceCap>>}

\* MarketData values whose char arrays are filled up to and beyond the
\* last byte that leaves room for the terminator; seq is the caller's value
LongTicks ==
    {[symbol |-> Bytes(l[1]), price |-> 100 + l[1], volume |-> 10 + l[2],
      seq |-> 9, timestamp |-> 7 + l[1] + l[2], source |-> Bytes(l[2])] :
        l \in LongLengths}

VARIABLES
    buffer_,              \* RingBuffer::buffer_ : slot index -> MessageWrapper data
    read_index_,          \* RingBuffer::read_index_
    write_index_,         \* RingBuffer::write_index_
    sequence_,            \* MessageBus::sequence_
    published_count_,     \* MessageBus::published_count_
    processed_count_,     \* MessageBus::processed_count_
    dropped_count_,       \* MessageBus::dropped_count_
    processing_delay_ms_, \* MessageBus::processing_delay_ms_
    subscribers_,         \* MessageBus::subscribers_ : topic -> list of callbacks
    should_continue,      \* the caller's run flag passed to process_messages
    ppc,                  \* per producer: position inside publish
    p_wrapper,            \* per producer: local `wrapper` of publish
    p_next_write,         \* per producer: local `next_write` of write
    p_result,             \* per producer: value returned by its last publish
    p_attempts,           \* per producer: calls of RingBuffer::write in this publish
    cpc,                  \* consumer: position inside process_messages
    c_wrapper,            \* consumer: local `wrapper`
    c_data,               \* consumer: local `data`
    c_idx,                \* consumer: position in the callback list
    c_end,                \* consumer: end of the list the range-for holds
    c_slept,              \* consumer: the last iteration slept for the delay
    rpc,                  \* resetting thread: position inside reset_counters
    ws_,                  \* per session: state of WebSocketSession::ws_
    reading,              \* per session: an async_read is outstanding
    writing,              \* per session: number of async_write calls outstanding
    outgoing_messages_,   \* per session: WebSocketSession::outgoing_messages_
    write_in_progress_,   \* per session: WebSocketSession::write_in_progress_
    posted,               \* the io_context's queue of posted send_text tasks
    calls,                \* history: number of publish calls that returned
    assigned,             \* history: sequence numbers in the order of assignment
    accepted,             \* history: sequence numbers whose publish returned true
    clog,                 \* history: events of the consumer thread, in order
    inputs,               \* history: the MarketData passed to each publish call
    delay_arg,            \* history: argument of the last set_processing_delay_ms
    r_mark,               \* history: counter increments made before the last reset, -1 before the first
    issued,               \* history, per session: messages passed to async_write
    written,              \* history, per session: messages whose write completed
    queued,               \* history, per session: messages appended to the queue
    bpc,                  \* thread that owns the bus: position in its constructor or destructor
    fd_,                  \* SharedMemory::fd_ : the open descriptor, -1 when there is none
    data_,                \* SharedMemory::data_ : "nullptr", "mapped" or "MAP_FAILED"
    linked,               \* the operating system has an object of the name name_
    size_,                \* SharedMemory::size_ : bytes of the region, the constructor's argument
    ring_buffer_,         \* MessageBus::ring_buffer_ : "null" or "placed"
    d_live,               \* history: the slots that were live when ~RingBuffer began
    destroyed,            \* history: the slots whose item ~RingBuffer has destroyed, in order
    sub_calls             \* history, per topic: number of subscribe calls made

ring == <<buffer_, read_index_, write_index_>>
counters == <<published_count_, processed_count_, dropped_count_>>
producerVars == <<ppc, p_wrapper, p_next_write, p_result, p_attempts>>
consumerVars == <<cpc, c_wrapper, c_data, c_idx, c_end, c_slept>>
history == <<calls, assigned, accepted, clog>>
resetVars == <<rpc, r_mark>>
sessionVars == <<ws_, reading, writing, outgoing_messages_, write_in_progress_,
                 posted, issued, written, queued>>
lifeVars ==
    <<bpc, fd_, data_, linked, size_, ring_buffer_, d_live, destroyed>>
vars == <<buffer_, read_index_, write_index_, sequence_, published_count_,
          processed_count_, dropped_count_, processing_delay_ms_,
          subscribers_, should_continue, ppc, p_wrapper, p_next_write,
          p_result, p_attempts, cpc, c_wrapper, c_data, c_idx, c_end,
          c_slept,
          calls, assigned, accepted, clog, inputs, delay_arg, rpc, r_mark,
          ws_, reading, writing, outgoing_messages_, write_in_progress_,
          posted, issued, written, queued, bpc, fd_, data_, linked, size_,
          ring_buffer_, d_live, destroyed, sub_calls>>

(***************************************************************************)
(* RingBuffer                                                              *)
(***************************************************************************)
\* x & (Size - 1), Size a power of two
Mask(x) == x % Size

\* unsigned subtraction of two std::size_t values
SizeTSub(a, b) == (a - b) % SizeTModulus

\* a next index that is not reduced modulo the slot count
NextIndex_unmasked(i) == i + 1

\* (index + 1) & (Size - 1)
NextIndex(i) == Mask(i + 1)

\* RingBuffer::size
size == Mask(SizeTSub(write_index_, read_index_))

\* RingBuffer::capacity
capacity == Size - 1

\* RingBuffer::is_full
is_full == size = capacity

\* RingBuffer::is_empty
is_empty == read_index_ = write_index_

\* a full test that never reports a full buffer
WriteSeesFull_never(next_write, r) == FALSE

\* a full test that reports a full buffer one slot early
WriteSeesFull_early(next_write, r) == (next_write + 1) % Size = r

\* the full test of RingBuffer::write
WriteSeesFull(next_write, r) == next_write = r

\* the empty test of RingBuffer::read
ReadSeesEmpty(r, w) == r = w

(***************************************************************************)
(* Init: the state after MessageBus::MessageBus                            *)
(***************************************************************************)
\* the bus as constructed, with `subs` as its subscriber registry
InitBus(subs) ==
    /\ buffer_ = [i \in 0..(Size - 1) |-> ZeroData]
    /\ read_index_ = 0
    /\ write_index_ = 0
    /\ sequence_ = 0
    /\ published_count_ = 0
    /\ processed_count_ = 0
    /\ dropped_count_ = 0
    /\ processing_delay_ms_ = 0
    /\ subscribers_ = subs
    /\ should_continue = TRUE
    /\ ppc = [p \in AllProducers |-> "idle"]
    /\ p_wrapper = [p \in AllProducers |-> ZeroData]
    /\ p_next_write = [p \in AllProducers |-> 0]
    /\ p_result = [p \in AllProducers |-> FALSE]
    /\ p_attempts = [p \in AllProducers |-> 0]
    /\ cpc = "idle"
    /\ c_wrapper = ZeroData
    /\ c_data = ZeroData
    /\ c_idx = 0
    /\ c_end = 0
    /\ c_slept = FALSE
    /\ calls = 0
    /\ assigned = <<>>
    /\ accepted = <<>>
    /\ clog = <<>>
    /\ inputs = <<>>
    /\ delay_arg = 0
    /\ rpc = "idle"
    /\ r_mark = -1
    /\ sub_calls = [t \in Topics |-> Len(subs[t])]

\* the shared region and the ring buffer after MessageBus::MessageBus has
\* returned for a region of sz bytes: the object is linked, open and
\* mapped, the ring buffer placed
InitMapped(sz) ==
    /\ bpc = "alive"
    /\ size_ = sz
    /\ fd_ = 3
    /\ data_ = "mapped"
    /\ linked = TRUE
    /\ ring_buffer_ = "placed"
    /\ d_live = <<>>
    /\ destroyed = <<>>

\* the bus of the test fixture after its construction
InitConstructed == InitMapped(TestRegionBytes)

\* at the call of MessageBus::MessageBus with buffer_size sz: no
\* descriptor, no mapping, no ring buffer; an object of the name may be left
\* over from an earlier run
InitUnmapped(sz) ==
    /\ bpc = "c_unlink"
    /\ size_ = sz
    /\ fd_ = -1
    /\ data_ = "nullptr"
    /\ linked \in BOOLEAN
    /\ ring_buffer_ = "null"
    /\ d_live = <<>>
    /\ destroyed = <<>>

\* at the construction of the bus of the test fixture
InitUnconstructed == InitUnmapped(TestRegionBytes)

\* the sessions of the server, every one of them in the state `st`; no task
\* is posted and no operation is outstanding on a connection
InitSessions(st) ==
    /\ ws_ = [s \in Sessions |-> st]
    /\ reading = [s \in Sessions |-> FALSE]
    /\ writing = [s \in Sessions |-> 0]
    /\ outgoing_messages_ = [s \in Sessions |-> <<>>]
    /\ write_in_progress_ = [s \in Sessions |-> FALSE]
    /\ posted = <<>>
    /\ issued = [s \in Sessions |-> <<>>]
    /\ written = [s \in Sessions |-> <<>>]
    /\ queued = [s \in Sessions |-> <<>>]

\* the registry of a new bus: no topic has a callback
NoSubscribers == [t \in Topics |-> <<>>]

\* the registry after the test fixtures' two subscribe calls
TwoSubscribers == [t \in Topics |-> IF t = "market_data" THEN <<1, 2>> ELSE <<>>]

\* a registry with one callback under each topic
RoutedSubscribers ==
    [t \in Topics |-> IF t = "market_data" THEN <<1>> ELSE <<2>>]

\* the registry of CallbackExceptions: one callback, which throws
ThrowingSubscriber ==
    [t \in Topics |-> IF t = "market_data" THEN <<3>> ELSE <<>>]

\* the test fixture before SetUp builds the bus
InitLifecycle ==
    InitBus(NoSubscribers) /\ InitUnconstructed /\ InitSessions("none")

\* a bus on its own, as in the tests: no session has been created
Init == InitBus(NoSubscribers) /\ InitConstructed /\ InitSessions("none")

\* the bus of MultipleSubscribers: constructed, then two callbacks subscribed
InitSubscribed == InitBus(TwoSubscribers) /\ InitConstructed /\ InitSessions("none")

\* the server after main has built the bus and the first connections were
\* handed to WebSocketSession::start: every handshake is outstanding
InitServer ==
    /\ InitBus(NoSubscribers)
    /\ InitMapped(ServerRegionBytes)
    /\ InitSessions("accepting")

\* at the construction of a bus with any of the region sizes in use; the
\* callbacks are subscribed once it is constructed
InitRegion ==
    /\ InitBus(NoSubscribers)
    /\ \E sz \in ConstructorSizes : InitUnmapped(sz)
    /\ InitSessions("none")

\* a bus with a callback subscribed under each of the two topics
InitRouted ==
    InitBus(RoutedSubscribers) /\ InitConstructed /\ InitSessions("none")

\* the bus of CallbackExceptions: a throwing callback is subscribed
InitThrowing == InitBus(ThrowingSubscriber) /\ InitConstructed /\ InitSessions("none")

(***************************************************************************)
(* MessageBus::publish, one step per access to shared state.  The catch    *)
(* block of publish is not modelled: strncpy, the atomic operations and    *)
(* the memcpy copy constructor raise no std::exception.                    *)
(***************************************************************************)
\* a sequence counter that hands out the counter's old value again
NextSeq_same(s) == s

\* sequence_.fetch_add(1) + 1
NextSeq(s) == s + 1

\* the wrapper publish builds from its argument and the assigned number
MakeWrapper(data, seq) ==
    [symbol |-> StrNCpy(data.symbol, SymbolCap),
     price |-> data.price,
     volume |-> data.volume,
     seq |-> seq,
     timestamp |-> data.timestamp,
     source |-> StrNCpy(data.source, SourceCap)]

\* publish, lines 42-56, called on a constructed bus: build the wrapper, take
\* the next sequence number
PublishBegin(p, topic, data, cap) ==
    /\ bpc = "alive"
    /\ ppc[p] = "idle"
    /\ sequence_ < cap
    /\ sequence_' = NextSeq(sequence_)
    /\ p_wrapper' = [p_wrapper EXCEPT ![p] = MakeWrapper(data, sequence_')]
    /\ assigned' = Append(assigned, sequence_')
    /\ p_attempts' = [p_attempts EXCEPT ![p] = 0]
    /\ ppc' = [ppc EXCEPT ![p] = "w_load"]
    /\ inputs' = Append(inputs, data)
    /\ UNCHANGED <<lifeVars, sub_calls>>
    /\ UNCHANGED <<delay_arg, resetVars, sessionVars>>
    /\ UNCHANGED <<ring, counters, processing_delay_ms_, subscribers_,
                   should_continue, p_next_write, p_result, consumerVars,
                   calls, accepted, clog>>

\* write, line 44: next_write = (write_index_ + 1) & (Size - 1)
WriteLoadIndex(p) ==
    /\ ppc[p] = "w_load"
    /\ p_next_write' = [p_next_write EXCEPT ![p] = NextIndex(write_index_)]
    /\ p_attempts' = [p_attempts EXCEPT ![p] = @ + 1]
    /\ ppc' = [ppc EXCEPT ![p] = "w_check"]
    /\ UNCHANGED <<lifeVars, sub_calls>>
    /\ UNCHANGED <<inputs, delay_arg, resetVars, sessionVars>>
    /\ UNCHANGED <<ring, sequence_, counters, processing_delay_ms_,
                   subscribers_, should_continue, p_wrapper, p_result,
                   consumerVars, history>>

\* a write that constructs without the test against the read index
WriteCheckFull_unchecked(p) ==
    /\ ppc[p] = "w_check"
    /\ ppc' = [ppc EXCEPT ![p] = "w_construct"]
    /\ UNCHANGED <<lifeVars, sub_calls>>
    /\ UNCHANGED <<inputs, delay_arg, resetVars, sessionVars>>
    /\ UNCHANGED <<ring, sequence_, counters, processing_delay_ms_,
                   subscribers_, should_continue, p_wrapper, p_next_write,
                   p_result, p_attempts, consumerVars, history>>

\* write, lines 45-47: if (next_write == read_index_) return false
WriteCheckFull(p) ==
    /\ ppc[p] = "w_check"
    /\ ppc' = [ppc EXCEPT ![p] =
                 IF WriteSeesFull(p_next_write[p], read_index_)
                 THEN "drop" ELSE "w_construct"]
    /\ UNCHANGED <<lifeVars, sub_calls>>
    /\ UNCHANGED <<inputs, delay_arg, resetVars, sessionVars>>
    /\ UNCHANGED <<ring, sequence_, counters, processing_delay_ms_,
                   subscribers_, should_continue, p_wrapper, p_next_write,
                   p_result, p_attempts, consumerVars, history>>

\* a write that publishes the new write index where it should construct the
\* item
WriteConstruct_indexFirst(p) ==
    /\ ppc[p] = "w_construct"
    /\ write_index_' = p_next_write[p]
    /\ ppc' = [ppc EXCEPT ![p] = "w_store"]
    /\ UNCHANGED <<lifeVars, sub_calls>>
    /\ UNCHANGED <<inputs, delay_arg, resetVars, sessionVars>>
    /\ UNCHANGED <<buffer_, read_index_, sequence_, counters,
                   processing_delay_ms_, subscribers_, should_continue,
                   p_wrapper, p_next_write, p_result, p_attempts,
                   consumerVars, history>>

\* write, line 50: new (&get(write_index_)) T(item); the index is loaded again
WriteConstruct(p) ==
    /\ ppc[p] = "w_construct"
    /\ buffer_' = [buffer_ EXCEPT ![write_index_] = p_wrapper[p]]
    /\ ppc' = [ppc EXCEPT ![p] = "w_store"]
    /\ UNCHANGED <<lifeVars, sub_calls>>
    /\ UNCHANGED <<inputs, delay_arg, resetVars, sessionVars>>
    /\ UNCHANGED <<read_index_, write_index_, sequence_, counters,
                   processing_delay_ms_, subscribers_, should_continue,
                   p_wrapper, p_next_write, p_result, p_attempts,
                   consumerVars, history>>

\* a write that returns true without storing the new write index
WriteStoreIndex_lost(p) ==
    /\ ppc[p] = "w_store"
    /\ ppc' = [ppc EXCEPT ![p] = "count"]
    /\ UNCHANGED <<lifeVars, sub_calls>>
    /\ UNCHANGED <<inputs, delay_arg, resetVars, sessionVars>>
    /\ UNCHANGED <<ring, sequence_, counters, processing_delay_ms_,
                   subscribers_, should_continue, p_wrapper, p_next_write,
                   p_result, p_attempts, consumerVars, history>>

\* a write that advances the write index by one from its current value
WriteStoreIndex_advance(p) ==
    /\ ppc[p] = "w_store"
    /\ write_index_' = NextIndex(write_index_)
    /\ ppc' = [ppc EXCEPT ![p] = "count"]
    /\ UNCHANGED <<lifeVars, sub_calls>>
    /\ UNCHANGED <<inputs, delay_arg, resetVars, sessionVars>>
    /\ UNCHANGED <<buffer_, read_index_, sequence_, counters,
                   processing_delay_ms_, subscribers_, should_continue,
                   p_wrapper, p_next_write, p_result, p_attempts,
                   consumerVars, history>>

\* write, lines 51-52: write_index_ = next_write; return true
WriteStoreIndex(p) ==
    /\ ppc[p] = "w_store"
    /\ write_index_' = p_next_write[p]
    /\ ppc' = [ppc EXCEPT ![p] = "count"]
    /\ UNCHANGED <<lifeVars, sub_calls>>
    /\ UNCHANGED <<inputs, delay_arg, resetVars, sessionVars>>
    /\ UNCHANGED <<buffer_, read_index_, sequence_, counters,
                   processing_delay_ms_, subscribers_, should_continue,
                   p_wrapper, p_next_write, p_result, p_attempts,
                   consumerVars, history>>

\* a successful publish that returns true without counting itself
PublishCount_uncounted(p) ==
    /\ ppc[p] = "count"
    /\ p_result' = [p_result EXCEPT ![p] = TRUE]
    /\ calls' = calls + 1
    /\ accepted' = Append(accepted, p_wrapper[p].seq)
    /\ ppc' = [ppc EXCEPT ![p] = "idle"]
    /\ UNCHANGED <<lifeVars, sub_calls>>
    /\ UNCHANGED <<inputs, delay_arg, resetVars, sessionVars>>
    /\ UNCHANGED <<ring, sequence_, counters, processing_delay_ms_,
                   subscribers_, should_continue, p_wrapper, p_next_write,
                   p_attempts, consumerVars, assigned, clog>>

\* publish, lines 65-66: published_count_.fetch_add(1); return true
PublishCount(p) ==
    /\ ppc[p] = "count"
    /\ published_count_' = published_count_ + 1
    /\ p_result' = [p_result EXCEPT ![p] = TRUE]
    /\ calls' = calls + 1
    /\ accepted' = Append(accepted, p_wrapper[p].seq)
    /\ ppc' = [ppc EXCEPT ![p] = "idle"]
    /\ UNCHANGED <<lifeVars, sub_calls>>
    /\ UNCHANGED <<inputs, delay_arg, resetVars, sessionVars>>
    /\ UNCHANGED <<ring, sequence_, processed_count_, dropped_count_,
                   processing_delay_ms_, subscribers_, should_continue,
                   p_wrapper, p_next_write, p_attempts, consumerVars,
                   assigned, clog>>

\* a failed publish that counts itself as published too
PublishDrop_published(p) ==
    /\ ppc[p] = "drop"
    /\ dropped_count_' = dropped_count_ + 1
    /\ published_count_' = published_count_ + 1
    /\ p_result' = [p_result EXCEPT ![p] = FALSE]
    /\ calls' = calls + 1
    /\ ppc' = [ppc EXCEPT ![p] = "idle"]
    /\ UNCHANGED <<lifeVars, sub_calls>>
    /\ UNCHANGED <<inputs, delay_arg, resetVars, sessionVars>>
    /\ UNCHANGED <<ring, sequence_, processed_count_,
                   processing_delay_ms_, subscribers_, should_continue,
                   p_wrapper, p_next_write, p_attempts, consumerVars,
                   assigned, accepted, clog>>

\* a failed publish that returns false without counting the drop
PublishDrop_silent(p) ==
    /\ ppc[p] = "drop"
    /\ p_result' = [p_result EXCEPT ![p] = FALSE]
    /\ calls' = calls + 1
    /\ ppc' = [ppc EXCEPT ![p] = "idle"]
    /\ UNCHANGED <<lifeVars, sub_calls>>
    /\ UNCHANGED <<inputs, delay_arg, resetVars, sessionVars>>
    /\ UNCHANGED <<ring, sequence_, counters,
                   processing_delay_ms_, subscribers_, should_continue,
                   p_wrapper, p_next_write, p_attempts, consumerVars,
                   assigned, accepted, clog>>

\* a failed publish that gives its sequence number back
PublishDrop_returnSeq(p) ==
    /\ ppc[p] = "drop"
    /\ dropped_count_' = dropped_count_ + 1
    /\ sequence_' = sequence_ - 1
    /\ p_result' = [p_result EXCEPT ![p] = FALSE]
    /\ calls' = calls + 1
    /\ ppc' = [ppc EXCEPT ![p] = "idle"]
    /\ UNCHANGED <<lifeVars, sub_calls>>
    /\ UNCHANGED <<inputs, delay_arg, resetVars, sessionVars>>
    /\ UNCHANGED <<ring, published_count_, processed_count_,
                   processing_delay_ms_, subscribers_, should_continue,
                   p_wrapper, p_next_write, p_attempts, consumerVars,
                   assigned, accepted, clog>>

\* publish, lines 59-63: dropped_count_.fetch_add(1); return false
PublishDrop(p) ==
    /\ ppc[p] = "drop"
    /\ dropped_count_' = dropped_count_ + 1
    /\ p_result' = [p_result EXCEPT ![p] = FALSE]
    /\ calls' = calls + 1
    /\ ppc' = [ppc EXCEPT ![p] = "idle"]
    /\ UNCHANGED <<lifeVars, sub_calls>>
    /\ UNCHANGED <<inputs, delay_arg, resetVars, sessionVars>>
    /\ UNCHANGED <<ring, sequence_, published_count_, processed_count_,
                   processing_delay_ms_, subscribers_, should_continue,
                   p_wrapper, p_next_write, p_attempts, consumerVars,
                   assigned, accepted, clog>>

\* the steps that take a publish call in progress to its return, on a buffer
\* with room: the full test of write fails and lines 59-63 are not reached
PublishReturn(p) ==
    \/ WriteLoadIndex(p)
    \/ WriteCheckFull(p)
    \/ WriteConstruct(p)
    \/ WriteStoreIndex(p)
    \/ PublishCount(p)

\* a producer that makes fewer publish calls than the buffer has usable slots
ProducerWithRoom(p, cap) ==
    \/ \E topic \in Topics, data \in InputTicks :
          PublishBegin(p, topic, data, cap)
    \/ PublishReturn(p)

\* a producer of ticks with long strings, making fewer publish calls than
\* the buffer has usable slots
ProducerOfLong(p, cap) ==
    \/ \E data \in LongTicks : PublishBegin(p, "market_data", data, cap)
    \/ PublishReturn(p)

\* a producer that publishes under each topic the tick of that topic, making
\* fewer publish calls than the buffer has usable slots
ProducerOfTopics(p, cap) ==
    \/ \E topic \in Topics : PublishBegin(p, topic, TopicTick[topic], cap)
    \/ PublishReturn(p)

Producer(p, cap) ==
    \/ \E topic \in Topics, data \in InputTicks :
          PublishBegin(p, topic, data, cap)
    \/ WriteLoadIndex(p)
    \/ WriteCheckFull(p)
    \/ WriteConstruct(p)
    \/ WriteStoreIndex(p)
    \/ PublishCount(p)
    \/ PublishDrop(p)

(***************************************************************************)
(* MessageBus::process_messages, run by the one consumer thread.           *)
(***************************************************************************)
\* the MarketData the loop rebuilds from the wrapper it read (lines 80-88)
ConvertBack(w) ==
    [symbol |-> StrNCpy(w.symbol, SymbolCap),
     price |-> w.price,
     volume |-> w.volume,
     seq |-> w.seq,
     timestamp |-> w.timestamp,
     source |-> StrNCpy(w.source, SourceCap)]

\* a lookup of the topic the tick was published under
DeliveryTopic_published ==
    IF c_wrapper.source = OtherSource THEN "other" ELSE "market_data"

\* the topic whose callbacks the loop notifies (line 91)
DeliveryTopic == "market_data"

\* the caller starts the loop on a constructed bus:
\* process_messages(should_continue)
StartConsumer ==
    /\ bpc = "alive"
    /\ cpc = "idle"
    /\ cpc' = "check"
    /\ UNCHANGED <<lifeVars, sub_calls>>
    /\ UNCHANGED <<inputs, delay_arg, resetVars, sessionVars>>
    /\ UNCHANGED <<ring, sequence_, counters, processing_delay_ms_,
                   subscribers_, should_continue, producerVars, c_wrapper,
                   c_data, c_idx, c_end, c_slept, history>>

\* a loop test that goes on whatever the run flag holds
LoopCheck_always ==
    /\ cpc = "check"
    /\ cpc' = "r_cmp"
    /\ UNCHANGED <<lifeVars, sub_calls>>
    /\ UNCHANGED <<inputs, delay_arg, resetVars, sessionVars>>
    /\ UNCHANGED <<ring, sequence_, counters, processing_delay_ms_,
                   subscribers_, should_continue, producerVars, c_wrapper,
                   c_data, c_idx, c_end, c_slept, history>>

\* line 74: while (should_continue)
LoopCheck ==
    /\ cpc = "check"
    /\ cpc' = IF should_continue THEN "r_cmp" ELSE "returned"
    /\ UNCHANGED <<lifeVars, sub_calls>>
    /\ UNCHANGED <<inputs, delay_arg, resetVars, sessionVars>>
    /\ UNCHANGED <<ring, sequence_, counters, processing_delay_ms_,
                   subscribers_, should_continue, producerVars, c_wrapper,
                   c_data, c_idx, c_end, c_slept, history>>

\* lines 76-77 and read, lines 56-58: MessageWrapper wrapper; empty test
ReadCheckEmpty ==
    /\ cpc = "r_cmp"
    /\ c_wrapper' = ZeroData
    /\ cpc' = IF ReadSeesEmpty(read_index_, write_index_)
              THEN "delay" ELSE "r_move"
    /\ UNCHANGED <<lifeVars, sub_calls>>
    /\ UNCHANGED <<inputs, delay_arg, resetVars, sessionVars>>
    /\ UNCHANGED <<ring, sequence_, counters, processing_delay_ms_,
                   subscribers_, should_continue, producerVars, c_data,
                   c_idx, c_end, c_slept, history>>

\* read, lines 61-62: item = std::move(get(read_index_)); the destructor of
\* MessageWrapper is trivial and leaves the slot's bytes in place
ReadMove ==
    /\ cpc = "r_move"
    /\ c_wrapper' = buffer_[read_index_]
    /\ cpc' = "r_store"
    /\ UNCHANGED <<lifeVars, sub_calls>>
    /\ UNCHANGED <<inputs, delay_arg, resetVars, sessionVars>>
    /\ UNCHANGED <<ring, sequence_, counters, processing_delay_ms_,
                   subscribers_, should_continue, producerVars, c_data,
                   c_idx, c_end, c_slept, history>>

\* a read that leaves the item in the buffer while no callback is registered
ReadAdvance_retain ==
    /\ cpc = "r_store"
    /\ read_index_' = IF subscribers_[DeliveryTopic] = <<>>
                      THEN read_index_ ELSE NextIndex(read_index_)
    /\ clog' = Append(clog, [kind |-> "read", idx |-> 0, cb |-> 0, n |-> 0,
                             ex |-> "none", tick |-> c_wrapper])
    /\ cpc' = "convert"
    /\ UNCHANGED <<lifeVars, sub_calls>>
    /\ UNCHANGED <<inputs, delay_arg, resetVars, sessionVars>>
    /\ UNCHANGED <<buffer_, write_index_, sequence_, counters,
                   processing_delay_ms_, subscribers_, should_continue,
                   producerVars, c_wrapper, c_data, c_idx, c_end, c_slept,
                   calls, assigned, accepted>>

\* a read that returns true and steps over the slot after the one it read
ReadAdvance_double ==
    /\ cpc = "r_store"
    /\ read_index_' = Mask(read_index_ + 2)
    /\ clog' = Append(clog, [kind |-> "read", idx |-> 0, cb |-> 0, n |-> 0,
                             ex |-> "none", tick |-> c_wrapper])
    /\ cpc' = "convert"
    /\ UNCHANGED <<lifeVars, sub_calls>>
    /\ UNCHANGED <<inputs, delay_arg, resetVars, sessionVars>>
    /\ UNCHANGED <<buffer_, write_index_, sequence_, counters,
                   processing_delay_ms_, subscribers_, should_continue,
                   producerVars, c_wrapper, c_data, c_idx, c_end, c_slept,
                   calls, assigned, accepted>>

\* a read that returns true and leaves the read index where it was
ReadAdvance_stuck ==
    /\ cpc = "r_store"
    /\ read_index_' = read_index_
    /\ clog' = Append(clog, [kind |-> "read", idx |-> 0, cb |-> 0, n |-> 0,
                             ex |-> "none", tick |-> c_wrapper])
    /\ cpc' = "convert"
    /\ UNCHANGED <<lifeVars, sub_calls>>
    /\ UNCHANGED <<inputs, delay_arg, resetVars, sessionVars>>
    /\ UNCHANGED <<buffer_, write_index_, sequence_, counters,
                   processing_delay_ms_, subscribers_, should_continue,
                   producerVars, c_wrapper, c_data, c_idx, c_end, c_slept,
                   calls, assigned, accepted>>

\* read, lines 63-64: read_index_ = (read_index_ + 1) & (Size - 1); return true
ReadAdvance ==
    /\ cpc = "r_store"
    /\ read_index_' = NextIndex(read_index_)
    /\ clog' = Append(clog, [kind |-> "read", idx |-> 0, cb |-> 0, n |-> 0,
                             ex |-> "none", tick |-> c_wrapper])
    /\ cpc' = "convert"
    /\ UNCHANGED <<lifeVars, sub_calls>>
    /\ UNCHANGED <<inputs, delay_arg, resetVars, sessionVars>>
    /\ UNCHANGED <<buffer_, write_index_, sequence_, counters,
                   processing_delay_ms_, subscribers_, should_continue,
                   producerVars, c_wrapper, c_data, c_idx, c_end, c_slept,
                   calls, assigned, accepted>>

\* lines 78-93: rebuild the MarketData, look up the callbacks of
\* "market_data"; the range-based for takes the begin and the end of the
\* list once, before the first callback
Convert ==
    /\ cpc = "convert"
    /\ c_data' = ConvertBack(c_wrapper)
    /\ c_idx' = 1
    /\ c_end' = Len(subscribers_[DeliveryTopic])
    /\ cpc' = "notify"
    /\ UNCHANGED <<lifeVars, sub_calls>>
    /\ UNCHANGED <<inputs, delay_arg, resetVars, sessionVars>>
    /\ UNCHANGED <<ring, sequence_, counters, processing_delay_ms_,
                   subscribers_, should_continue, producerVars, c_wrapper,
                   c_slept, history>>

\* the wire message of a tick (on_accept, lines 77-85): a JSON object of the
\* tick's fields and the constant type, serialised by dump()
ToJson(data) ==
    [type |-> "market_data", symbol |-> data.symbol, price |-> data.price,
     volume |-> data.volume, seq |-> data.seq, timestamp |-> data.timestamp,
     source |-> data.source]

\* what the exception a callback throws derives from, "none" when it returns
Raises(cb) ==
    IF cb \in ThrowsStd THEN "std"
    ELSE IF cb \in ThrowsOther THEN "other" ELSE "none"

\* the io_context's queue after the callback has run: a session's closure
\* calls send_text (line 86), which posts a task holding the message
\* (line 96); the callbacks of the tests post nothing
CallbackPosts(q, cb, data) ==
    IF cb \in Closures
    THEN Append(q, [session |-> SessionOf(cb), msg |-> ToJson(data)])
    ELSE q

\* an iteration over the callback list that steps over every other entry
InvokeCallback_skip ==
    /\ cpc = "notify"
    /\ c_idx <= c_end
    /\ LET cb == subscribers_[DeliveryTopic][c_idx]
       IN  /\ clog' = Append(clog, [kind |-> "call", idx |-> c_idx, cb |-> cb,
                                    n |-> 0, ex |-> Raises(cb),
                                    tick |-> c_data])
           /\ posted' = CallbackPosts(posted, cb, c_data)
           /\ IF Raises(cb) = "other"
              THEN /\ cpc' = "terminated"
                   /\ c_idx' = c_idx
              ELSE /\ cpc' = "notify"
                   /\ c_idx' = c_idx + 2
    /\ UNCHANGED <<lifeVars, sub_calls>>
    /\ UNCHANGED <<inputs, delay_arg, resetVars, ws_, reading, writing,
                   outgoing_messages_, write_in_progress_, issued, written,
                   queued>>
    /\ UNCHANGED <<ring, sequence_, counters, processing_delay_ms_,
                   subscribers_, should_continue, producerVars, c_wrapper,
                   c_data, c_end, c_slept, calls, assigned, accepted>>

\* a callback loop in which a session's closure queues and writes its message
\* on the consumer thread
InvokeCallback_direct ==
    /\ cpc = "notify"
    /\ c_idx <= c_end
    /\ LET cb == subscribers_[DeliveryTopic][c_idx]
           s == SessionOf(cb)
       IN  /\ clog' = Append(clog, [kind |-> "call", idx |-> c_idx, cb |-> cb,
                                    n |-> 0, ex |-> Raises(cb),
                                    tick |-> c_data])
           /\ IF cb \in Closures /\ ws_[s] = "open"
              THEN /\ outgoing_messages_' =
                         [outgoing_messages_ EXCEPT
                            ![s] = Append(@, ToJson(c_data))]
                   /\ queued' = [queued EXCEPT ![s] = Append(@, ToJson(c_data))]
                   /\ IF ~write_in_progress_[s]
                      THEN /\ write_in_progress_' =
                                 [write_in_progress_ EXCEPT ![s] = TRUE]
                           /\ writing' = [writing EXCEPT ![s] = @ + 1]
                           /\ issued' =
                                 [issued EXCEPT
                                    ![s] = Append(@, Head(outgoing_messages_'[s]))]
                      ELSE UNCHANGED <<write_in_progress_, writing, issued>>
              ELSE UNCHANGED <<outgoing_messages_, queued, write_in_progress_,
                               writing, issued>>
           /\ IF Raises(cb) = "other"
              THEN /\ cpc' = "terminated"
                   /\ c_idx' = c_idx
              ELSE /\ cpc' = "notify"
                   /\ c_idx' = c_idx + 1
    /\ UNCHANGED <<lifeVars, sub_calls>>
    /\ UNCHANGED <<inputs, delay_arg, resetVars, ws_, reading, posted, written>>
    /\ UNCHANGED <<ring, sequence_, counters, processing_delay_ms_,
                   subscribers_, should_continue, producerVars, c_wrapper,
                   c_data, c_end, c_slept, calls, assigned, accepted>>

\* lines 93-99: try { callback(data); } catch (const std::exception&) for the
\* next callback of the list.  An exception of a type derived from
\* std::exception is caught and logged here and the iteration goes on; any
\* other thrown value passes this handler and the one of lines 108-111 and
\* leaves process_messages.
InvokeCallback ==
    /\ cpc = "notify"
    /\ c_idx <= c_end
    /\ LET cb == subscribers_[DeliveryTopic][c_idx]
       IN  /\ clog' = Append(clog, [kind |-> "call", idx |-> c_idx, cb |-> cb,
                                    n |-> 0, ex |-> Raises(cb),
                                    tick |-> c_data])
           /\ posted' = CallbackPosts(posted, cb, c_data)
           /\ IF Raises(cb) = "other"
              THEN /\ cpc' = "terminated"
                   /\ c_idx' = c_idx
              ELSE /\ cpc' = "notify"
                   /\ c_idx' = c_idx + 1
    /\ UNCHANGED <<lifeVars, sub_calls>>
    /\ UNCHANGED <<inputs, delay_arg, resetVars, ws_, reading, writing,
                   outgoing_messages_, write_in_progress_, issued, written,
                   queued>>
    /\ UNCHANGED <<ring, sequence_, counters, processing_delay_ms_,
                   subscribers_, should_continue, producerVars, c_wrapper,
                   c_data, c_end, c_slept, calls, assigned, accepted>>

\* a loop that finishes a tick without counting it as processed
CountProcessed_uncounted ==
    /\ cpc = "notify"
    /\ c_idx > c_end
    /\ clog' = Append(clog, [kind |-> "done", idx |-> 0, cb |-> 0,
                             n |-> c_end,
                             ex |-> "none", tick |-> c_data])
    /\ cpc' = "delay"
    /\ UNCHANGED <<lifeVars, sub_calls>>
    /\ UNCHANGED <<inputs, delay_arg, resetVars, sessionVars>>
    /\ UNCHANGED <<ring, sequence_, counters,
                   processing_delay_ms_, subscribers_, should_continue,
                   producerVars, c_wrapper, c_data, c_idx, c_end, c_slept,
                   calls, assigned, accepted>>

\* line 101: the list is exhausted; processed_count_.fetch_add(1)
CountProcessed ==
    /\ cpc = "notify"
    /\ c_idx > c_end
    /\ processed_count_' = processed_count_ + 1
    /\ clog' = Append(clog, [kind |-> "done", idx |-> 0, cb |-> 0,
                             n |-> c_end,
                             ex |-> "none", tick |-> c_data])
    /\ cpc' = "delay"
    /\ UNCHANGED <<lifeVars, sub_calls>>
    /\ UNCHANGED <<inputs, delay_arg, resetVars, sessionVars>>
    /\ UNCHANGED <<ring, sequence_, published_count_, dropped_count_,
                   processing_delay_ms_, subscribers_, should_continue,
                   producerVars, c_wrapper, c_data, c_idx, c_end, c_slept,
                   calls, assigned, accepted>>

\* lines 104-107: load the delay; sleep_for(delay) when it is positive.  The
\* sleeping thread takes no step, which every thread of the model may do at
\* any point, so the sleep is recorded and the loop goes on.
LoadDelay ==
    /\ cpc = "delay"
    /\ c_slept' = (processing_delay_ms_ > 0)
    /\ cpc' = "check"
    /\ UNCHANGED <<lifeVars, sub_calls>>
    /\ UNCHANGED <<inputs, delay_arg, resetVars, sessionVars>>
    /\ UNCHANGED <<ring, sequence_, counters, processing_delay_ms_,
                   subscribers_, should_continue, producerVars, c_wrapper,
                   c_data, c_idx, c_end, history>>

Consumer ==
    \/ StartConsumer
    \/ LoopCheck
    \/ ReadCheckEmpty
    \/ ReadMove
    \/ ReadAdvance
    \/ Convert
    \/ InvokeCallback
    \/ CountProcessed
    \/ LoadDelay

(***************************************************************************)
(* The other operations of the bus and of the caller.                      *)
(***************************************************************************)
NumSubs == Len(subscribers_["market_data"]) + Len(subscribers_["other"])

\* a subscribe that registers a callback once only
Subscribe_dedup(topic, cb) ==
    /\ bpc = "alive"
    /\ NumSubs < MaxSubs
    /\ cpc \notin {"convert", "notify"}
    /\ subscribers_' =
           [subscribers_ EXCEPT
              ![topic] = IF \E i \in 1..Len(@) : @[i] = cb
                         THEN @ ELSE Append(@, cb)]
    /\ sub_calls' = [sub_calls EXCEPT ![topic] = @ + 1]
    /\ UNCHANGED lifeVars
    /\ UNCHANGED <<inputs, delay_arg, resetVars, sessionVars>>
    /\ UNCHANGED <<ring, sequence_, counters, processing_delay_ms_,
                   should_continue, producerVars, consumerVars, history>>

\* subscribe, called on a constructed bus:
\* subscribers_[topic].push_back(callback).  The registry is not
\* synchronised, so a registration runs while the loop is not inside its
\* lookup and iteration of the list.
Subscribe(topic, cb) ==
    /\ bpc = "alive"
    /\ NumSubs < MaxSubs
    /\ cpc \notin {"convert", "notify"}
    /\ subscribers_' = [subscribers_ EXCEPT ![topic] = Append(@, cb)]
    /\ sub_calls' = [sub_calls EXCEPT ![topic] = @ + 1]
    /\ UNCHANGED lifeVars
    /\ UNCHANGED <<inputs, delay_arg, resetVars, sessionVars>>
    /\ UNCHANGED <<ring, sequence_, counters, processing_delay_ms_,
                   should_continue, producerVars, consumerVars, history>>

\* a setter that stores its argument as it is
SetProcessingDelay_unclamped(ms) ==
    /\ processing_delay_ms_' = ms
    /\ delay_arg' = ms
    /\ UNCHANGED <<lifeVars, sub_calls>>
    /\ UNCHANGED <<inputs, resetVars, sessionVars>>
    /\ UNCHANGED <<ring, sequence_, counters, subscribers_, should_continue,
                   producerVars, consumerVars, history>>

\* set_processing_delay_ms: processing_delay_ms_.store(std::max(0, ms))
SetProcessingDelay(ms) ==
    /\ processing_delay_ms_' = Max(0, ms)
    /\ delay_arg' = ms
    /\ UNCHANGED <<lifeVars, sub_calls>>
    /\ UNCHANGED <<inputs, resetVars, sessionVars>>
    /\ UNCHANGED <<ring, sequence_, counters, subscribers_, should_continue,
                   producerVars, consumerVars, history>>

\* the number of increments of the three counters made so far: one by every
\* publish call that has returned and one by every tick counted as processed
Increments == calls + Cardinality({j \in 1..Len(clog) : clog[j].kind = "done"})

\* a first step of reset_counters that zeroes the three counters at once
ResetPublished_atomic ==
    /\ rpc = "idle"
    /\ published_count_' = 0
    /\ processed_count_' = 0
    /\ dropped_count_' = 0
    /\ r_mark' = Increments
    /\ rpc' = "processed"
    /\ UNCHANGED <<lifeVars, sub_calls>>
    /\ UNCHANGED <<ring, sequence_, processing_delay_ms_, subscribers_,
                   should_continue, producerVars, consumerVars, history,
                   inputs, delay_arg, sessionVars>>

\* reset_counters, line 141: published_count_.store(0)
ResetPublished ==
    /\ rpc = "idle"
    /\ published_count_' = 0
    /\ r_mark' = Increments
    /\ rpc' = "processed"
    /\ UNCHANGED <<lifeVars, sub_calls>>
    /\ UNCHANGED <<ring, sequence_, processed_count_, dropped_count_,
                   processing_delay_ms_, subscribers_, should_continue,
                   producerVars, consumerVars, history, inputs, delay_arg,
                   sessionVars>>

\* a reset that leaves processed_count_ as it is
ResetProcessed_kept ==
    /\ rpc = "processed"
    /\ rpc' = "dropped"
    /\ UNCHANGED <<lifeVars, sub_calls>>
    /\ UNCHANGED <<ring, sequence_, counters,
                   processing_delay_ms_, subscribers_, should_continue,
                   producerVars, consumerVars, history, inputs, delay_arg,
                   r_mark, sessionVars>>

\* reset_counters, line 142: processed_count_.store(0)
ResetProcessed ==
    /\ rpc = "processed"
    /\ processed_count_' = 0
    /\ rpc' = "dropped"
    /\ UNCHANGED <<lifeVars, sub_calls>>
    /\ UNCHANGED <<ring, sequence_, published_count_, dropped_count_,
                   processing_delay_ms_, subscribers_, should_continue,
                   producerVars, consumerVars, history, inputs, delay_arg,
                   r_mark, sessionVars>>

\* a reset that starts the sequence numbers again as well
ResetDropped_sequence ==
    /\ rpc = "dropped"
    /\ dropped_count_' = 0
    /\ sequence_' = 0
    /\ rpc' = "idle"
    /\ UNCHANGED <<lifeVars, sub_calls>>
    /\ UNCHANGED <<ring, published_count_, processed_count_,
                   processing_delay_ms_, subscribers_, should_continue,
                   producerVars, consumerVars, history, inputs, delay_arg,
                   r_mark, sessionVars>>

\* reset_counters, lines 143-144: dropped_count_.store(0); return
ResetDropped ==
    /\ rpc = "dropped"
    /\ dropped_count_' = 0
    /\ rpc' = "idle"
    /\ UNCHANGED <<lifeVars, sub_calls>>
    /\ UNCHANGED <<ring, sequence_, published_count_, processed_count_,
                   processing_delay_ms_, subscribers_, should_continue,
                   producerVars, consumerVars, history, inputs, delay_arg,
                   r_mark, sessionVars>>

\* a thread inside reset_counters
ResetCounters ==
    \/ ResetPublished
    \/ ResetProcessed
    \/ ResetDropped

\* the caller clears the run flag: should_continue = false
StopConsumer ==
    /\ should_continue
    /\ should_continue' = FALSE
    /\ UNCHANGED <<lifeVars, sub_calls>>
    /\ UNCHANGED <<inputs, delay_arg, resetVars, sessionVars>>
    /\ UNCHANGED <<ring, sequence_, counters, processing_delay_ms_,
                   subscribers_, producerVars, consumerVars, history>>

(***************************************************************************)
(* Construction and destruction of the bus, by the thread that owns it.    *)
(* MessageBus::MessageBus builds the SharedMemory in its initialiser list  *)
(* and places the ring buffer in the mapped region; ~MessageBus runs the   *)
(* ring buffer's destructor and then the one of SharedMemory.  The members *)
(* of the bus outside the region have the values of their initialisers.    *)
(***************************************************************************)
\* what a system call of the constructor returns
SysResults == {"ok", "error"}

\* the variables the constructor and destructor leave alone
memberVars == <<sequence_, counters, processing_delay_ms_, subscribers_,
                should_continue, producerVars, consumerVars, history, inputs,
                delay_arg, resetVars, sessionVars, sub_calls>>

\* the slots from the read index up to the write index, oldest first
LiveSlots(r, w) == [i \in 1..Mask(SizeTSub(w, r)) |-> Mask(r + i - 1)]

\* SharedMemory::SharedMemory, line 23: shm_unlink(name_), result ignored
UnlinkStale ==
    /\ bpc = "c_unlink"
    /\ linked' = FALSE
    /\ bpc' = "c_open"
    /\ UNCHANGED size_
    /\ UNCHANGED <<ring, memberVars, fd_, data_, ring_buffer_, d_live,
                   destroyed>>

\* lines 26-29: fd_ = shm_open(O_CREAT | O_RDWR); on -1 throw
OpenRegion(res) ==
    /\ bpc = "c_open"
    /\ IF res = "ok"
       THEN /\ fd_' = 3
            /\ linked' = TRUE
            /\ bpc' = "c_size"
       ELSE /\ UNCHANGED <<fd_, linked>>
            /\ bpc' = "failed"
    /\ UNCHANGED size_
    /\ UNCHANGED <<ring, memberVars, data_, ring_buffer_, d_live, destroyed>>

\* lines 32-35: ftruncate(fd_, size_); on -1 close(fd_) and throw
SizeRegion(res) ==
    /\ bpc = "c_size"
    /\ IF res = "ok"
       THEN /\ UNCHANGED fd_
            /\ bpc' = "c_map"
       ELSE /\ fd_' = -1
            /\ bpc' = "failed"
    /\ UNCHANGED size_
    /\ UNCHANGED <<ring, memberVars, data_, linked, ring_buffer_, d_live,
                   destroyed>>

\* a constructor that goes on with the value mmap returned, whatever it is
MapRegion_unchecked(res) ==
    /\ bpc = "c_map"
    /\ data_' = IF res = "ok" THEN "mapped" ELSE "MAP_FAILED"
    /\ bpc' = "c_zero"
    /\ UNCHANGED size_
    /\ UNCHANGED <<ring, memberVars, fd_, linked, ring_buffer_, d_live,
                   destroyed>>

\* lines 38-42: data_ = mmap(...); on MAP_FAILED close(fd_) and throw
MapRegion(res) ==
    /\ bpc = "c_map"
    /\ IF res = "ok"
       THEN /\ data_' = "mapped"
            /\ UNCHANGED fd_
            /\ bpc' = "c_zero"
       ELSE /\ data_' = "MAP_FAILED"
            /\ fd_' = -1
            /\ bpc' = "failed"
    /\ UNCHANGED size_
    /\ UNCHANGED <<ring, memberVars, linked, ring_buffer_, d_live, destroyed>>

\* line 45: std::memset(data_, 0, size_)
ZeroRegion ==
    /\ bpc = "c_zero"
    /\ buffer_' = [i \in 0..(Size - 1) |-> ZeroData]
    /\ read_index_' = 0
    /\ write_index_' = 0
    /\ bpc' = "c_ring"
    /\ UNCHANGED size_
    /\ UNCHANGED <<memberVars, fd_, data_, linked, ring_buffer_, d_live,
                   destroyed>>

\* what the placement of the ring buffer leads to.  The constructor passes
\* buffer_size to SharedMemory unexamined (lines 10-11) and places a
\* RingBuffer of SizeofRingBuffer bytes at get_data() (lines 17-27); the
\* two indices it stores are the last bytes of the object.  In a region
\* smaller than the object these stores go to addresses outside the
\* mapping: they fault and the process ends, or they land in whatever is
\* mapped there and the constructor returns.
PlaceOutcomes == {"placed", "fault"}

\* MessageBus::MessageBus, lines 21-27, and RingBuffer(), line 31: the ring
\* buffer is constructed at get_data() with both indices 0
PlaceRingBuffer(out) ==
    /\ bpc = "c_ring"
    /\ out = "fault" => size_ < SizeofRingBuffer
    /\ IF out = "placed"
       THEN /\ read_index_' = 0
            /\ write_index_' = 0
            /\ ring_buffer_' = "placed"
            /\ bpc' = "alive"
       ELSE /\ bpc' = "crashed"
            /\ UNCHANGED <<read_index_, write_index_, ring_buffer_>>
    /\ UNCHANGED size_
    /\ UNCHANGED <<buffer_, memberVars, fd_, data_, linked, d_live,
                   destroyed>>

\* MessageBus::MessageBus; an exception of SharedMemory's constructor leaves
\* the initialiser list and the constructor of the bus
Construct ==
    \/ UnlinkStale
    \/ \E res \in SysResults : OpenRegion(res)
    \/ \E res \in SysResults : SizeRegion(res)
    \/ \E res \in SysResults : MapRegion(res)
    \/ ZeroRegion
    \/ \E out \in PlaceOutcomes : PlaceRingBuffer(out)

\* no thread is inside a member function of the bus: the owner has joined
\* the consumer thread and the producers before it lets go of the bus
Quiescent ==
    /\ \A p \in AllProducers : ppc[p] = "idle"
    /\ cpc \in {"idle", "returned"}
    /\ rpc = "idle"

\* a destructor that unmaps the region before it destroys the ring buffer
DestroyBegin_unmapFirst ==
    /\ bpc = "alive"
    /\ Quiescent
    /\ d_live' = LiveSlots(read_index_, write_index_)
    /\ data_' = "nullptr"
    /\ bpc' = "d_loop"
    /\ UNCHANGED size_
    /\ UNCHANGED <<ring, memberVars, fd_, linked, ring_buffer_, destroyed>>

\* ~MessageBus, lines 115-122: ring_buffer_.reset() calls the deleter, which
\* calls ~RingBuffer
DestroyBegin ==
    /\ bpc = "alive"
    /\ Quiescent
    /\ d_live' = LiveSlots(read_index_, write_index_)
    /\ bpc' = "d_loop"
    /\ UNCHANGED size_
    /\ UNCHANGED <<ring, memberVars, fd_, data_, linked, ring_buffer_,
                   destroyed>>

\* ~RingBuffer, line 37: while (read_index_ != write_index_); when the loop
\* ends the unique_ptr is null
DestroyLoopTest ==
    /\ bpc = "d_loop"
    /\ IF read_index_ # write_index_
       THEN /\ bpc' = "d_slot"
            /\ UNCHANGED ring_buffer_
       ELSE /\ bpc' = "d_unmap"
            /\ ring_buffer_' = "null"
    /\ UNCHANGED size_
    /\ UNCHANGED <<ring, memberVars, fd_, data_, linked, d_live, destroyed>>

\* ~RingBuffer, lines 38-39: get(read_index_).~T(); advance the read index.
\* The destructor of MessageWrapper leaves the bytes of the slot in place.
DestroySlot ==
    /\ bpc = "d_slot"
    /\ destroyed' = Append(destroyed, read_index_)
    /\ read_index_' = NextIndex(read_index_)
    /\ bpc' = "d_loop"
    /\ UNCHANGED size_
    /\ UNCHANGED <<buffer_, write_index_, memberVars, fd_, data_, linked,
                   ring_buffer_, d_live>>

\* ~MessageBus, line 129, and ~SharedMemory, lines 64-69: munmap(data_)
UnmapRegion ==
    /\ bpc = "d_unmap"
    /\ data_' = "nullptr"
    /\ bpc' = "d_close"
    /\ UNCHANGED size_
    /\ UNCHANGED <<ring, memberVars, fd_, linked, ring_buffer_, d_live,
                   destroyed>>

\* ~SharedMemory, lines 72-77: close(fd_); fd_ = -1
CloseRegion ==
    /\ bpc = "d_close"
    /\ fd_' = -1
    /\ bpc' = "d_unlink"
    /\ UNCHANGED size_
    /\ UNCHANGED <<ring, memberVars, data_, linked, ring_buffer_, d_live,
                   destroyed>>

\* ~SharedMemory, lines 80-82: shm_unlink(name_)
UnlinkRegion ==
    /\ bpc = "d_unlink"
    /\ linked' = FALSE
    /\ bpc' = "gone"
    /\ UNCHANGED size_
    /\ UNCHANGED <<ring, memberVars, fd_, data_, ring_buffer_, d_live,
                   destroyed>>

\* ~MessageBus
Destroy ==
    \/ DestroyBegin
    \/ DestroyLoopTest
    \/ DestroySlot
    \/ UnmapRegion
    \/ CloseRegion
    \/ UnlinkRegion

(***************************************************************************)
(* WebSocketSession (server.cpp).  One thread runs the io_context (main,   *)
(* line 530), so posted tasks and completion handlers run one at a time,   *)
(* each of them one step.  ws_ holds the status of the stream: is_open()   *)
(* is true from a successful handshake until the first error or close is   *)
(* delivered on the stream; from then on every operation outstanding on it *)
(* completes with an error.                                                *)
(***************************************************************************)
\* the io_context thread is not inside an HTTP handler that calls publish
IoThreadFree == \A p \in AllProducers : ppc[p] = "idle"

\* the error codes a handshake, a read and a write complete with
AcceptResults == {"ok", "error"}
ReadResults == {"ok", "closed", "error"}
WriteResults == {"ok", "error"}

\* the status of a stream after a completion with the code ec
StatusAfter(st, ec) ==
    IF st # "open" THEN st
    ELSE IF ec = "closed" THEN "closed" ELSE "failed"

\* on_accept, lines 67-91: on an error return; else subscribe the closure
\* and start reading.  As for Subscribe, the push_back runs while the loop is
\* not inside its lookup and iteration of the list.
OnAccept(s, ec) ==
    /\ IoThreadFree
    /\ ws_[s] = "accepting"
    /\ IF ec # "ok"
       THEN /\ ws_' = [ws_ EXCEPT ![s] = "failed"]
            /\ UNCHANGED <<subscribers_, sub_calls, reading>>
       ELSE /\ cpc \notin {"convert", "notify"}
            /\ ws_' = [ws_ EXCEPT ![s] = "open"]
            /\ subscribers_' = [subscribers_ EXCEPT
                                  !["market_data"] = Append(@, Closure(s))]
            /\ sub_calls' = [sub_calls EXCEPT !["market_data"] = @ + 1]
            /\ reading' = [reading EXCEPT ![s] = TRUE]
    /\ UNCHANGED lifeVars
    /\ UNCHANGED <<ring, sequence_, counters, processing_delay_ms_,
                   should_continue, producerVars, consumerVars, history,
                   inputs, delay_arg, resetVars, writing,
                   outgoing_messages_, write_in_progress_, posted, issued,
                   written, queued>>

\* what a push_back that runs while the consumer thread is inside its lookup
\* and iteration of the list can lead to: the loop goes on to the end it
\* took before the push_back; the loop goes on and reaches the new entry;
\* the loop follows iterators into storage the push_back has released and
\* the thread ends
RaceOutcomes == {"old_end", "new_end", "crash"}

\* on_accept without an error, lines 72-90, run by the io_context thread
\* while the consumer thread, started before ioc.run() (main, lines 514 and
\* 530), is between its read of a tick and the end of the callback loop.
\* subscribe takes no lock (market_data_types.hpp:141-146) and neither does
\* the loop (message_bus.cpp:91-99), so the push_back and the iteration are
\* a data race.
OnAcceptDuringDelivery(s, out) ==
    /\ IoThreadFree
    /\ ws_[s] = "accepting"
    /\ cpc \in {"convert", "notify"}
    /\ ws_' = [ws_ EXCEPT ![s] = "open"]
    /\ subscribers_' = [subscribers_ EXCEPT
                          !["market_data"] = Append(@, Closure(s))]
    /\ sub_calls' = [sub_calls EXCEPT !["market_data"] = @ + 1]
    /\ reading' = [reading EXCEPT ![s] = TRUE]
    /\ cpc' = IF out = "crash" THEN "terminated" ELSE cpc
    /\ c_end' = IF out = "new_end" /\ cpc = "notify"
                THEN Len(subscribers_["market_data"]) + 1 ELSE c_end
    /\ UNCHANGED <<c_wrapper, c_data, c_idx, c_slept>>
    /\ UNCHANGED lifeVars
    /\ UNCHANGED <<ring, sequence_, counters, processing_delay_ms_,
                   should_continue, producerVars, history, inputs, delay_arg,
                   resetVars, writing, outgoing_messages_,
                   write_in_progress_, posted, issued, written, queued>>

\* a posted task that queues its message whether or not the stream is open
SendTextTask_unchecked ==
    /\ IoThreadFree
    /\ posted # <<>>
    /\ posted' = Tail(posted)
    /\ LET s == Head(posted).session
           q == Append(outgoing_messages_[s], Head(posted).msg)
       IN  /\ outgoing_messages_' = [outgoing_messages_ EXCEPT ![s] = q]
           /\ queued' = [queued EXCEPT ![s] = Append(@, Head(posted).msg)]
           /\ IF ~write_in_progress_[s] /\ ws_[s] = "open"
              THEN /\ write_in_progress_' =
                         [write_in_progress_ EXCEPT ![s] = TRUE]
                   /\ writing' = [writing EXCEPT ![s] = @ + 1]
                   /\ issued' = [issued EXCEPT ![s] = Append(@, Head(q))]
              ELSE UNCHANGED <<write_in_progress_, writing, issued>>
    /\ UNCHANGED <<lifeVars, sub_calls>>
    /\ UNCHANGED <<ring, sequence_, counters, processing_delay_ms_,
                   subscribers_, should_continue, producerVars, consumerVars,
                   history, inputs, delay_arg, resetVars, ws_, reading,
                   written>>

\* a posted task that starts a write whether or not one is in flight
SendTextTask_ungated ==
    /\ IoThreadFree
    /\ posted # <<>>
    /\ posted' = Tail(posted)
    /\ LET s == Head(posted).session
           q == Append(outgoing_messages_[s], Head(posted).msg)
       IN  IF ws_[s] # "open"
           THEN UNCHANGED <<outgoing_messages_, write_in_progress_, writing,
                            issued, queued>>
           ELSE /\ outgoing_messages_' = [outgoing_messages_ EXCEPT ![s] = q]
                /\ queued' = [queued EXCEPT ![s] = Append(@, Head(posted).msg)]
                /\ write_in_progress_' =
                       [write_in_progress_ EXCEPT ![s] = TRUE]
                /\ writing' = [writing EXCEPT ![s] = @ + 1]
                /\ issued' = [issued EXCEPT ![s] = Append(@, Head(q))]
    /\ UNCHANGED <<lifeVars, sub_calls>>
    /\ UNCHANGED <<ring, sequence_, counters, processing_delay_ms_,
                   subscribers_, should_continue, producerVars, consumerVars,
                   history, inputs, delay_arg, resetVars, ws_, reading,
                   written>>

\* a posted task that puts its message at the front of the queue
SendTextTask_pushFront ==
    /\ IoThreadFree
    /\ posted # <<>>
    /\ posted' = Tail(posted)
    /\ LET s == Head(posted).session
           q == <<Head(posted).msg>> \o outgoing_messages_[s]
       IN  IF ws_[s] # "open"
           THEN UNCHANGED <<outgoing_messages_, write_in_progress_, writing,
                            issued, queued>>
           ELSE /\ outgoing_messages_' = [outgoing_messages_ EXCEPT ![s] = q]
                /\ queued' = [queued EXCEPT ![s] = Append(@, Head(posted).msg)]
                /\ IF ~write_in_progress_[s]
                   THEN /\ write_in_progress_' =
                              [write_in_progress_ EXCEPT ![s] = TRUE]
                        /\ writing' = [writing EXCEPT ![s] = @ + 1]
                        /\ issued' = [issued EXCEPT ![s] = Append(@, Head(q))]
                   ELSE UNCHANGED <<write_in_progress_, writing, issued>>
    /\ UNCHANGED <<lifeVars, sub_calls>>
    /\ UNCHANGED <<ring, sequence_, counters, processing_delay_ms_,
                   subscribers_, should_continue, producerVars, consumerVars,
                   history, inputs, delay_arg, resetVars, ws_, reading,
                   written>>

\* the task posted by send_text, lines 96-105, the oldest task of the queue:
\* return when the stream is not open; else push_back the message and, when
\* no write is in flight, set the flag and async_write the front
SendTextTask ==
    /\ IoThreadFree
    /\ posted # <<>>
    /\ posted' = Tail(posted)
    /\ LET s == Head(posted).session
           q == Append(outgoing_messages_[s], Head(posted).msg)
       IN  IF ws_[s] # "open"
           THEN UNCHANGED <<outgoing_messages_, write_in_progress_, writing,
                            issued, queued>>
           ELSE /\ outgoing_messages_' = [outgoing_messages_ EXCEPT ![s] = q]
                /\ queued' = [queued EXCEPT ![s] = Append(@, Head(posted).msg)]
                /\ IF ~write_in_progress_[s]
                   THEN /\ write_in_progress_' =
                              [write_in_progress_ EXCEPT ![s] = TRUE]
                        /\ writing' = [writing EXCEPT ![s] = @ + 1]
                        /\ issued' = [issued EXCEPT ![s] = Append(@, Head(q))]
                   ELSE UNCHANGED <<write_in_progress_, writing, issued>>
    /\ UNCHANGED <<lifeVars, sub_calls>>
    /\ UNCHANGED <<ring, sequence_, counters, processing_delay_ms_,
                   subscribers_, should_continue, producerVars, consumerVars,
                   history, inputs, delay_arg, resetVars, ws_, reading,
                   written>>

\* a completion that removes the written message and starts no write
OnWriteOk_noNext(s) ==
    LET q == IF outgoing_messages_[s] # <<>>
             THEN Tail(outgoing_messages_[s]) ELSE <<>>
    IN  /\ written' = [written EXCEPT ![s] = Append(@, issued[s][Len(issued[s])])]
        /\ outgoing_messages_' = [outgoing_messages_ EXCEPT ![s] = q]
        /\ writing' = [writing EXCEPT ![s] = @ - 1]
        /\ write_in_progress_' = [write_in_progress_ EXCEPT ![s] = (q # <<>>)]
        /\ UNCHANGED <<issued, ws_>>

\* a completion that leaves the in-flight flag set when nothing is queued
OnWriteOk_keepFlag(s) ==
    LET q == IF outgoing_messages_[s] # <<>>
             THEN Tail(outgoing_messages_[s]) ELSE <<>>
    IN  /\ written' = [written EXCEPT ![s] = Append(@, issued[s][Len(issued[s])])]
        /\ outgoing_messages_' = [outgoing_messages_ EXCEPT ![s] = q]
        /\ IF q # <<>>
           THEN /\ issued' = [issued EXCEPT ![s] = Append(@, Head(q))]
                /\ UNCHANGED <<writing, write_in_progress_>>
           ELSE /\ writing' = [writing EXCEPT ![s] = @ - 1]
                /\ UNCHANGED <<issued, write_in_progress_>>
        /\ UNCHANGED ws_

\* on_write without an error, lines 138-148: pop_front the written message;
\* async_write the new front when there is one, else clear the flag
OnWriteOk(s) ==
    LET q == IF outgoing_messages_[s] # <<>>
             THEN Tail(outgoing_messages_[s]) ELSE <<>>
    IN  /\ written' = [written EXCEPT ![s] = Append(@, issued[s][Len(issued[s])])]
        /\ outgoing_messages_' = [outgoing_messages_ EXCEPT ![s] = q]
        /\ IF q # <<>>
           THEN /\ issued' = [issued EXCEPT ![s] = Append(@, Head(q))]
                /\ UNCHANGED <<writing, write_in_progress_>>
           ELSE /\ writing' = [writing EXCEPT ![s] = @ - 1]
                /\ write_in_progress_' =
                       [write_in_progress_ EXCEPT ![s] = FALSE]
                /\ UNCHANGED issued
        /\ UNCHANGED ws_

\* an error path that drops the failed message and writes the next one
OnWriteError_retry(s, ec) ==
    LET q == IF outgoing_messages_[s] # <<>>
             THEN Tail(outgoing_messages_[s]) ELSE <<>>
    IN  /\ ws_' = [ws_ EXCEPT ![s] = StatusAfter(@, ec)]
        /\ outgoing_messages_' = [outgoing_messages_ EXCEPT ![s] = q]
        /\ IF q # <<>>
           THEN /\ issued' = [issued EXCEPT ![s] = Append(@, Head(q))]
                /\ UNCHANGED <<writing, write_in_progress_>>
           ELSE /\ writing' = [writing EXCEPT ![s] = @ - 1]
                /\ write_in_progress_' =
                       [write_in_progress_ EXCEPT ![s] = FALSE]
                /\ UNCHANGED issued
        /\ UNCHANGED written

\* an error path that throws away the queue of every session
OnWriteError_global(s, ec) ==
    /\ ws_' = [ws_ EXCEPT ![s] = StatusAfter(@, ec)]
    /\ writing' = [writing EXCEPT ![s] = @ - 1]
    /\ outgoing_messages_' = [t \in Sessions |-> <<>>]
    /\ UNCHANGED <<lifeVars, sub_calls>>
    /\ UNCHANGED <<write_in_progress_, issued, written>>

\* on_write with an error, lines 134-137: log and return; the queue and the
\* flag stay as they are
OnWriteError(s, ec) ==
    /\ ws_' = [ws_ EXCEPT ![s] = StatusAfter(@, ec)]
    /\ writing' = [writing EXCEPT ![s] = @ - 1]
    /\ UNCHANGED <<lifeVars, sub_calls>>
    /\ UNCHANGED <<outgoing_messages_, write_in_progress_, issued, written>>

\* on_write, lines 133-149, the completion handler of an outstanding write
OnWrite(s, ec) ==
    /\ IoThreadFree
    /\ writing[s] > 0
    /\ ec = "ok" => ws_[s] = "open"
    /\ IF ec = "ok" THEN OnWriteOk(s) ELSE OnWriteError(s, ec)
    /\ UNCHANGED <<lifeVars, sub_calls>>
    /\ UNCHANGED <<ring, sequence_, counters, processing_delay_ms_,
                   subscribers_, should_continue, producerVars, consumerVars,
                   history, inputs, delay_arg, resetVars, reading, posted,
                   queued>>

\* on_read, lines 118-131, the completion handler of the outstanding read:
\* on a close or an error log and return; else discard the client's message
\* and do_read again (lines 108-116), which reads when the stream is open
OnRead(s, ec) ==
    /\ IoThreadFree
    /\ reading[s]
    /\ ec \in {"ok", "closed"} => ws_[s] = "open"
    /\ IF ec = "ok"
       THEN UNCHANGED <<ws_, reading>>
       ELSE /\ ws_' = [ws_ EXCEPT ![s] = StatusAfter(@, ec)]
            /\ reading' = [reading EXCEPT ![s] = FALSE]
    /\ UNCHANGED <<lifeVars, sub_calls>>
    /\ UNCHANGED <<ring, sequence_, counters, processing_delay_ms_,
                   subscribers_, should_continue, producerVars, consumerVars,
                   history, inputs, delay_arg, resetVars, writing,
                   outgoing_messages_, write_in_progress_, posted, issued,
                   written, queued>>

\* the handlers and tasks the io_context thread runs for the sessions S
IoThread(S) ==
    \/ \E s \in S, ec \in AcceptResults : OnAccept(s, ec)
    \/ SendTextTask
    \/ \E s \in S, ec \in WriteResults : OnWrite(s, ec)
    \/ \E s \in S, ec \in ReadResults : OnRead(s, ec)

(***************************************************************************)
(* Specifications.                                                         *)
(***************************************************************************)
\* one producer thread, the consumer thread, registrations
Next ==
    \/ \E p \in SingleProducer : Producer(p, MaxPublish)
    \/ Consumer
    \/ \E topic \in Topics, cb \in Callbacks : Subscribe(topic, cb)

Spec == Init /\ [][Next]_vars

\* the server: one producer thread, the consumer thread, and the control
\* operations that set the delay and clear the run flag
NextControl ==
    \/ \E p \in SingleProducer : Producer(p, MaxPublishControl)
    \/ Consumer
    \/ \E ms \in DelayArgs : SetProcessingDelay(ms)
    \/ StopConsumer

SpecControl == InitSubscribed /\ [][NextControl]_vars

\* several producer threads inside publish at once and the consumer thread;
\* as in MultiThreadedTest the callbacks are registered before the threads
\* are started
NextMP ==
    \/ \E p \in AllProducers : Producer(p, MaxPublishMP)
    \/ Consumer

SpecMP == InitSubscribed /\ [][NextMP]_vars

\* one producer and a consumer loop whose run flag stays set, the callbacks
\* registered before the loop starts (as PerformanceTest and BufferOverflow
\* do); the consumer is a running thread, so a step it can take is
\* eventually taken
NextLive ==
    \/ \E p \in SingleProducer : Producer(p, MaxPublish)
    \/ Consumer

SpecLive == InitSubscribed /\ [][NextLive]_vars /\ WF_vars(Consumer)

\* CallbackExceptions: a callback that throws std::runtime_error is
\* registered before the loop starts; a second callback, one that returns or
\* one that throws a value of another type, is registered after it
NextFault ==
    \/ \E p \in SingleProducer : Producer(p, MaxPublishFault)
    \/ Consumer
    \/ \E cb \in Callbacks \cup ThrowsOther : Subscribe("market_data", cb)

SpecFault == InitThrowing /\ [][NextFault]_vars

\* BasicPublishSubscribe with ticks whose symbol and source fill their
\* arrays: one producer, the consumer loop, the callbacks registered first
NextTrunc ==
    \/ \E p \in SingleProducer : ProducerOfLong(p, MaxPublishTrunc)
    \/ Consumer

SpecTrunc == InitSubscribed /\ [][NextTrunc]_vars

\* a producer, the consumer loop and a thread that calls reset_counters
NextReset ==
    \/ \E p \in SingleProducer : Producer(p, MaxPublishReset)
    \/ Consumer
    \/ ResetCounters

SpecReset == InitSubscribed /\ [][NextReset]_vars

\* the server: the HTTP handler that publishes, the consumer thread and the
\* WebSocket sessions
NextServer ==
    \/ \E p \in SingleProducer : ProducerWithRoom(p, MaxPublishServer)
    \/ Consumer
    \/ IoThread(Sessions)

SpecServer == InitServer /\ [][NextServer]_vars

\* the server with one connection.  The io_context thread runs a handler
\* that is ready, so the HTTP handler inside publish returns, a posted task
\* is run, and an outstanding write completes, with or without an error.
NextServerLive ==
    \/ \E p \in SingleProducer : ProducerWithRoom(p, MaxPublishServerLive)
    \/ Consumer
    \/ IoThread(OneSession)

SpecServerLive ==
    /\ InitServer
    /\ [][NextServerLive]_vars
    /\ WF_vars(\E p \in SingleProducer : PublishReturn(p))
    /\ WF_vars(SendTextTask)
    /\ \A s \in OneSession : WF_vars(\E ec \in WriteResults : OnWrite(s, ec))

\* a producer, the consumer loop as a running thread, and the caller that
\* clears the run flag (the tests, lines 132-133; main, lines 534-537); the
\* callbacks return
NextStop ==
    \/ \E p \in SingleProducer : Producer(p, MaxPublish)
    \/ Consumer
    \/ StopConsumer

SpecStop == InitSubscribed /\ [][NextStop]_vars /\ WF_vars(Consumer)

\* the test fixture: SetUp constructs the bus, the test registers callbacks,
\* publishes, runs and stops the consumer loop, and TearDown destroys the bus
NextLifecycle ==
    \/ Construct
    \/ \E p \in SingleProducer : Producer(p, MaxPublishLife)
    \/ Consumer
    \/ \E cb \in Callbacks : Subscribe("market_data", cb)
    \/ StopConsumer
    \/ Destroy

SpecLifecycle == InitLifecycle /\ [][NextLifecycle]_vars

\* the construction of a bus with each of the region sizes in use, its use
\* by a producer, a subscriber and the consumer loop, and its destruction
NextRegion ==
    \/ Construct
    \/ \E p \in SingleProducer : ProducerWithRoom(p, MaxPublishRegion)
    \/ \E cb \in Callbacks : Subscribe("market_data", cb)
    \/ Consumer
    \/ Destroy

SpecRegion == InitRegion /\ [][NextRegion]_vars

\* two threads inside publish at once, on a buffer with room, and the
\* consumer thread; the callbacks are registered before the threads start
NextRace ==
    \/ \E p \in AllProducers : ProducerWithRoom(p, MaxPublishRace)
    \/ Consumer

SpecRace == InitSubscribed /\ [][NextRace]_vars

\* a producer that publishes under both topics and the consumer loop, with
\* a callback registered under each topic
NextRoute ==
    \/ \E p \in SingleProducer : ProducerOfTopics(p, MaxPublishRoute)
    \/ Consumer

SpecRoute == InitRouted /\ [][NextRoute]_vars

\* the server, with the handshakes that complete while the consumer thread
\* is delivering a tick
NextServerRace ==
    \/ \E p \in SingleProducer : ProducerWithRoom(p, MaxPublishServerRace)
    \/ Consumer
    \/ IoThread(Sessions)
    \/ \E s \in Sessions, out \in RaceOutcomes : OnAcceptDuringDelivery(s, out)

SpecServerRace == InitServer /\ [][NextServerRace]_vars

(***************************************************************************)
(* Properties.                                                             *)
(***************************************************************************)
Range(f) == {f[i] : i \in DOMAIN f}

IsPrefix(a, b) == Len(a) <= Len(b) /\ \A i \in 1..Len(a) : a[i] = b[i]

\* the positions of the consumer's log that hold an event of one kind
Events(kind) == {j \in 1..Len(clog) : clog[j].kind = kind}

\* the sequence numbers of the ticks read so far, in the order of the reads
ReadSeq ==
    LET reads == SelectSeq(clog, LAMBDA e : e.kind = "read")
    IN  [i \in 1..Len(reads) |-> reads[i].tick.seq]

\* how often the tick numbered s was read from the ring buffer
ReadCount(s) == Cardinality({j \in Events("read") : clog[j].tick.seq = s})

\* how often the i-th callback of the list was invoked with the tick numbered s
CallCount(i, s) ==
    Cardinality({j \in Events("call") :
                    clog[j].idx = i /\ clog[j].tick.seq = s})

\* the tick numbered s was read once and every callback registered when it
\* was delivered was invoked once with it
DeliveredOnce(s) ==
    /\ ReadCount(s) = 1
    /\ \E j \in Events("done") :
          /\ clog[j].tick.seq = s
          /\ \A i \in 1..clog[j].n : CallCount(i, s) = 1

\* the sequence numbers accepted by the ring buffer, in the order of the writes
\* (the single producer may not have returned from the last publish yet)
AcceptedOrInFlight ==
    accepted \o (IF ppc[1] = "count" THEN <<p_wrapper[1].seq>> ELSE <<>>)

\* C1: with one producer and a running consumer loop every tick whose
\* publish returned true is eventually read and delivered to the callbacks
\* of "market_data", and no tick is ever read or delivered twice.
C1_EventuallyDeliveredOnce ==
    /\ [](\A s \in 1..MaxPublish :
            /\ ReadCount(s) <= 1
            /\ \A i \in 1..Len(subscribers_["market_data"]) :
                  CallCount(i, s) <= 1)
    /\ \A s \in 1..MaxPublish : (s \in Range(accepted)) ~> DeliveredOnce(s)

\* C1 witness: a publish was dropped, the write index wrapped around, and a
\* tick published after the drop was delivered to a callback
C1_Witness ==
    /\ dropped_count_ > 0
    /\ Len(accepted) >= Size
    /\ read_index_ = 0
    /\ \E s \in Range(accepted) :
          /\ s > Len(accepted)
          /\ DeliveredOnce(s)
          /\ CallCount(1, s) = 1

\* C2: with one producer and one consumer the ticks are read in the order in
\* which they were accepted, so the sequence numbers of the reads increase.
C2_Fifo ==
    /\ \A i \in 1..(Len(ReadSeq) - 1) : ReadSeq[i] < ReadSeq[i + 1]
    /\ IsPrefix(ReadSeq, AcceptedOrInFlight)

\* C2 witness: ticks on both sides of a dropped publish were read
C2_Witness ==
    \E i \in 1..(Len(ReadSeq) - 1) : ReadSeq[i + 1] > ReadSeq[i] + 1

\* C8: in every reachable state is_full() holds exactly when size() equals
\* capacity(), is_empty() holds exactly when size() is 0, and the two are
\* never true together.
C8_FullEmpty ==
    /\ is_full <=> (size = capacity)
    /\ is_empty <=> (size = 0)
    /\ ~(is_full /\ is_empty)

\* C8 witness: a full buffer whose write index has wrapped around
C8_Witness == is_full /\ write_index_ < read_index_

\* the callback list of "market_data"
Registered == subscribers_[DeliveryTopic]

\* no publish is in progress, the buffer is empty and the consumer holds no tick
Drained ==
    /\ \A p \in AllProducers : ppc[p] = "idle"
    /\ is_empty
    /\ cpc \in {"idle", "check", "r_cmp", "delay", "returned"}

\* the number of callback invocations made so far
Deliveries == Cardinality(Events("call"))

\* C3: with several producers publishing concurrently and one consumer loop,
\* once the buffer has drained the number of deliveries to each subscriber
\* equals the number of publish calls that returned true.
C3_NoLossMP == Drained => Deliveries = Len(accepted) * Len(Registered)

\* the steps publish takes on the path that ends in `return false`
FailPath == {"w_load", "w_check", "drop"}

\* C4: a publish that finds size() = capacity() at the full test returns
\* false and adds one to dropped_count_; no step of such a call changes the
\* indices, the slots, published_count_ or processed_count_.
C4_FailedPublish ==
    [][\A p \in SingleProducer :
         /\ (ppc[p] = "w_check" /\ ppc'[p] # "w_check" /\ size = capacity)
               => ppc'[p] = "drop"
         /\ (ppc'[p] # ppc[p] /\ ppc'[p] \in FailPath)
               => UNCHANGED <<ring, counters>>
         /\ (ppc[p] = "drop" /\ ppc'[p] # "drop")
               => /\ ppc'[p] = "idle"
                  /\ p_result'[p] = FALSE
                  /\ dropped_count_' = dropped_count_ + 1
                  /\ UNCHANGED <<ring, published_count_, processed_count_>>
      ]_vars

\* C4 witness: a publish has just returned false on a buffer that is still full
C4_Witness ==
    /\ ppc[1] = "idle"
    /\ calls > 0
    /\ p_result[1] = FALSE
    /\ dropped_count_ > 0
    /\ is_full

\* C5: every publish call attempts one ring-buffer write, and its return
\* adds one to published_count_ when it returns true and one to
\* dropped_count_ when it returns false, leaving the other counter alone; so
\* published_count_ + dropped_count_ is the number of completed calls.
C5_OneAttemptOneCounter ==
    /\ [](/\ published_count_ + dropped_count_ = calls
          /\ \A p \in SingleProducer :
                ppc[p] \in {"w_check", "w_construct", "w_store", "count", "drop"}
                   => p_attempts[p] = 1)
    /\ [][\A p \in SingleProducer :
            (ppc[p] # "idle" /\ ppc'[p] = "idle")
               => /\ p_attempts[p] = 1
                  /\ calls' = calls + 1
                  /\ processed_count_' = processed_count_
                  /\ IF p_result'[p]
                     THEN /\ published_count_' = published_count_ + 1
                          /\ dropped_count_' = dropped_count_
                     ELSE /\ dropped_count_' = dropped_count_ + 1
                          /\ published_count_' = published_count_
         ]_vars

\* C5 witness: calls of both outcomes have completed, the last one with true
C5_Witness ==
    /\ ppc[1] = "idle"
    /\ published_count_ > 0
    /\ dropped_count_ > 0
    /\ p_result[1] = TRUE
    /\ calls = published_count_ + dropped_count_

\* C6: the sequence numbers come from one counter: the first one assigned is
\* 1 and each one is greater than every number assigned before it, also when
\* publish calls run concurrently.
C6_SequenceNumbers ==
    /\ Len(assigned) > 0 => assigned[1] = 1
    /\ \A i, j \in 1..Len(assigned) : i < j => assigned[i] < assigned[j]

\* C6 witness: two publish calls are in progress at once, each with its number
C6_Witness ==
    /\ ppc[1] # "idle"
    /\ ppc[2] # "idle"
    /\ p_wrapper[1].seq # p_wrapper[2].seq
    /\ p_wrapper[1].seq > 0
    /\ p_wrapper[2].seq > 0

\* C7: after k publish calls and no read, size() is min(k, N-1): the first
\* N-1 calls succeeded and every later one failed.
C7_SizeAfterPublishes ==
    (Events("read") = {} /\ ppc[1] = "idle")
       => /\ size = Min(calls, Size - 1)
          /\ published_count_ = Min(calls, Size - 1)
          /\ dropped_count_ = calls - Min(calls, Size - 1)
          /\ accepted = [i \in 1..Min(calls, Size - 1) |-> i]

\* C7 witness: more publish calls than usable slots, and no read
C7_Witness ==
    /\ Events("read") = {}
    /\ ppc[1] = "idle"
    /\ calls > Size - 1
    /\ size = Size - 1

\* C9 as stated: at every point of the execution
\* processed_count_ + size() equals published_count_.
C9_Original == processed_count_ + size = published_count_

\* the publish in progress has advanced the write index and not yet counted
PublishUncounted == IF ppc[1] = "count" THEN 1 ELSE 0

\* the consumer has advanced the read index and not yet counted the tick
ReadUncounted == IF cpc \in {"convert", "notify"} THEN 1 ELSE 0

\* C9 amended: processed_count_ + size() differs from published_count_ by at
\* most one: it is one more while a publish has stored the write index and
\* not yet incremented published_count_, one less while the consumer has
\* stored the read index and not yet incremented processed_count_.
C9_Amended ==
    processed_count_ + size =
       published_count_ + PublishUncounted - ReadUncounted

\* C9 witness: an observation between the write-index store and the increment
C9_Witness ==
    /\ ppc[1] = "count"
    /\ cpc \notin {"convert", "notify"}
    /\ processed_count_ + size = published_count_ + 1

\* C10: the consumer's events come in blocks, one per tick read: the read,
\* then one invocation of each registered callback with that tick, in the
\* order of subscription, then the count; so all callbacks have run for a
\* tick before the next tick is read.
C10_DeliveryOrder ==
    \A j \in 1..Len(clog) :
       LET e == clog[j]
       IN  /\ e.kind = "read" => (j = 1 \/ clog[j - 1].kind = "done")
           /\ e.kind = "call" =>
                 /\ j > 1
                 /\ e.cb = Registered[e.idx]
                 /\ IF e.idx = 1
                    THEN /\ clog[j - 1].kind = "read"
                         /\ e.tick = ConvertBack(clog[j - 1].tick)
                    ELSE /\ clog[j - 1].kind = "call"
                         /\ clog[j - 1].idx = e.idx - 1
                         /\ e.tick = clog[j - 1].tick
           /\ e.kind = "done" =>
                 /\ j > e.n + 1
                 /\ e.n <= Len(Registered)
                 /\ clog[j - e.n - 1].kind = "read"
                 /\ \A i \in 1..e.n :
                       /\ clog[j - e.n - 1 + i].kind = "call"
                       /\ clog[j - e.n - 1 + i].idx = i
                       /\ clog[j - e.n - 1 + i].tick.seq = e.tick.seq

\* C10 witness: a tick was delivered to two different callbacks and a later
\* tick has been read
C10_Witness ==
    \E j \in Events("done") :
       /\ clog[j].n = 2
       /\ clog[j - 1].cb # clog[j - 2].cb
       /\ j < Len(clog)

\* the position of the consumer's log after which the loop finished a tick
FaultContainedAt(j) ==
    \/ /\ j = Len(clog)
       /\ cpc = "notify"
       /\ c_idx = clog[j].idx + 1
    \/ /\ j < Len(clog)
       /\ \/ /\ clog[j + 1].kind = "call"
             /\ clog[j + 1].idx = clog[j].idx + 1
             /\ clog[j + 1].tick = clog[j].tick
          \/ /\ clog[j + 1].kind = "done"
             /\ clog[j + 1].tick = clog[j].tick

\* C11: when a callback throws while a tick is delivered, the loop is not
\* left: the callbacks after it are invoked with that tick, the tick is
\* counted in processed_count_, and later ticks are processed.
C11_FaultContained ==
    /\ cpc # "terminated"
    /\ \A j \in Events("call") :
          clog[j].ex # "none" => FaultContainedAt(j)
    /\ cpc \in {"idle", "check", "r_cmp", "delay", "returned"}
          => processed_count_ = Cardinality(Events("read"))

\* the messages the closure of session s was invoked with, in order
DeliveredTo(s) ==
    LET cs == SelectSeq(clog, LAMBDA e : e.kind = "call" /\ e.cb = Closure(s))
    IN  [i \in 1..Len(cs) |-> ToJson(cs[i].tick)]

\* the messages of the posted tasks of session s that have not run yet
PostedFor(s) ==
    LET ps == SelectSeq(posted, LAMBDA t : t.session = s)
    IN  [i \in 1..Len(ps) |-> ps[i].msg]

\* the connection of session s has had a fault or was closed
Faulted(s) == ws_[s] \in {"closed", "failed"}

\* C12: a session has at most one write outstanding; a write is issued by a
\* task that finds the in-flight flag clear and sets it, or by the
\* completion handler of the previous write.
C12_SingleWrite ==
    /\ [](\A s \in Sessions :
            /\ writing[s] <= 1
            /\ writing[s] = 1 => write_in_progress_[s])
    /\ [][\A s \in Sessions :
            issued'[s] # issued[s] =>
               \/ /\ ~write_in_progress_[s]
                  /\ write_in_progress_'[s]
                  /\ writing[s] = 0
                  /\ writing'[s] = 1
               \/ /\ write_in_progress_[s]
                  /\ writing[s] = 1
                  /\ writing'[s] = 1
                  /\ Len(written'[s]) = Len(written[s]) + 1
         ]_vars

\* C12 witness: both sessions have a write in flight and session 1 has a
\* message waiting behind it
C12_Witness ==
    /\ writing[1] = 1
    /\ writing[2] = 1
    /\ Len(outgoing_messages_[1]) >= 2

\* C13: on a connection without a fault every message appended to the queue
\* is eventually written, once and in the order of the queue; a message
\* queued during a write waits, and the completion handler of a write
\* starts the write of the next message of the queue.
C13_QueueDrained ==
    /\ [](\A s \in Sessions :
            /\ IsPrefix(written[s], issued[s])
            /\ IsPrefix(issued[s], queued[s])
            /\ ws_[s] = "open" =>
                  /\ queued[s] = written[s] \o outgoing_messages_[s]
                  /\ Len(issued[s]) = Len(written[s]) + writing[s])
    /\ [][\A s \in Sessions :
            /\ (Len(queued'[s]) > Len(queued[s]) /\ write_in_progress_[s])
                  => issued'[s] = issued[s]
            /\ (Len(written'[s]) > Len(written[s])
                    /\ Len(outgoing_messages_[s]) >= 2)
                  => /\ issued'[s] = Append(issued[s], outgoing_messages_[s][2])
                     /\ write_in_progress_'[s]
         ]_vars
    /\ \A s \in OneSession, k \in 1..MaxPublishServerLive :
          (Len(queued[s]) >= k) ~> (Len(written[s]) >= k \/ Faulted(s))

\* C13 witness: a message that waited behind a write has been written
C13_Witness ==
    /\ ws_[1] = "open"
    /\ Len(written[1]) >= 2
    /\ outgoing_messages_[1] = <<>>
    /\ ~write_in_progress_[1]

\* C14: the messages written on a connection are the ticks delivered to its
\* closure, in the order of delivery: their sequence numbers increase, and
\* two connections are written the ticks they share in the same order.
C14_WriteOrder ==
    /\ \A s \in Sessions :
          /\ IsPrefix(issued[s], DeliveredTo(s))
          /\ \A i \in 1..(Len(issued[s]) - 1) :
                issued[s][i].seq < issued[s][i + 1].seq
    /\ \A s, t \in Sessions :
          \A i, j \in 1..Len(issued[s]) : \A k, l \in 1..Len(issued[t]) :
             (i < j /\ issued[s][i] = issued[t][k] /\ issued[s][j] = issued[t][l])
                => k < l

\* C14 witness: two connections were each written the same two ticks, the
\* second session having subscribed first
C14_Witness ==
    /\ Len(issued[1]) >= 2
    /\ Len(issued[2]) >= 2
    /\ issued[1][1] = issued[2][1]
    /\ issued[1][2] = issued[2][2]
    /\ Registered = <<Closure(2), Closure(1)>>

\* C15: after a read or write fault was delivered on a connection, or the
\* connection was closed, no write is issued on it.
C15_NoWriteAfterFault ==
    [][\A s \in Sessions :
         Faulted(s) => /\ issued'[s] = issued[s]
                       /\ writing'[s] <= writing[s]
                       /\ Faulted(s)'
      ]_vars

\* C15 witness: session 1 was closed at a read and a tick delivered to its
\* closure afterwards was not queued; session 2 had a write fault with a
\* message waiting
C15_Witness ==
    /\ ws_[1] = "closed"
    /\ Len(issued[1]) >= 1
    /\ Len(DeliveredTo(1)) > Len(queued[1]) + Len(PostedFor(1))
    /\ ws_[2] = "failed"
    /\ write_in_progress_[2]
    /\ writing[2] = 0
    /\ Len(outgoing_messages_[2]) >= 2

\* the handler that runs in this step is handed an error on session s
FaultStep(s) == ~Faulted(s) /\ Faulted(s)'

\* C16: a fault on one connection changes nothing of the bus, the consumer
\* loop or any other session, and every other open session still has every
\* tick delivered to its closure in its queue or in a task on its way there.
C16_FaultIsLocal ==
    /\ [][\A s \in Sessions :
            FaultStep(s) =>
               /\ UNCHANGED <<ring, sequence_, counters, processing_delay_ms_,
                              subscribers_, should_continue, consumerVars,
                              producerVars, history, posted>>
               /\ \A t \in Sessions \ {s} :
                     /\ outgoing_messages_'[t] = outgoing_messages_[t]
                     /\ write_in_progress_'[t] = write_in_progress_[t]
                     /\ writing'[t] = writing[t]
                     /\ reading'[t] = reading[t]
                     /\ ws_'[t] = ws_[t]
                     /\ issued'[t] = issued[t]
         ]_vars
    /\ [](\A t \in Sessions :
            ws_[t] = "open" =>
               /\ DeliveredTo(t) = queued[t] \o PostedFor(t)
               /\ queued[t] = written[t] \o outgoing_messages_[t])

\* C16 witness: session 1 has had a fault, and a tick that was delivered to
\* its closure after the fault has been written on session 2
C16_Witness ==
    /\ Faulted(1)
    /\ Len(issued[1]) >= 1
    /\ ws_[2] = "open"
    /\ \E m \in Range(written[2]) :
          /\ m \in Range(DeliveredTo(1))
          /\ m \notin Range(queued[1])
          /\ m \notin Range(PostedFor(1))

\* the tick d is what the bus delivers for the tick in published with the
\* sequence number n
DeliveredFor(d, in, n) ==
    /\ d.price = in.price
    /\ d.volume = in.volume
    /\ d.timestamp = in.timestamp
    /\ d.seq = n
    /\ Len(d.symbol) <= SymbolCap - 1
    /\ d.symbol = SubSeq(in.symbol, 1, Len(d.symbol))
    /\ Len(d.symbol) = Min(Len(in.symbol), SymbolCap - 1)
    /\ Len(in.symbol) <= SymbolCap - 1 => d.symbol = in.symbol
    /\ Len(d.source) <= SourceCap - 1
    /\ d.source = SubSeq(in.source, 1, Len(d.source))
    /\ Len(d.source) = Min(Len(in.source), SourceCap - 1)
    /\ Len(in.source) <= SourceCap - 1 => d.source = in.source

\* C17: a tick handed to a callback has the price, volume and timestamp of
\* a published tick, the sequence number the bus assigned to it, and its
\* symbol and source cut to 15 and 31 bytes, unchanged when they fit.
C17_DeliveredTick ==
    \A j \in Events("call") :
       \E k \in 1..Len(assigned) :
          /\ k <= Len(inputs)
          /\ DeliveredFor(clog[j].tick, inputs[k], assigned[k])

\* C17 witness: a tick whose symbol and source filled their arrays was
\* delivered with both cut, after one that was delivered unchanged
C17_Witness ==
    \E i, j \in Events("call") :
       /\ i < j
       /\ clog[i].tick.symbol = inputs[clog[i].tick.seq].symbol
       /\ clog[i].tick.source = inputs[clog[i].tick.seq].source
       /\ Len(inputs[clog[j].tick.seq].symbol) = SymbolCap
       /\ Len(inputs[clog[j].tick.seq].source) = SourceCap
       /\ Len(clog[j].tick.symbol) = SymbolCap - 1
       /\ Len(clog[j].tick.source) = SourceCap - 1

\* the first Size - 1 publish calls returned true and the next one, made on
\* the full buffer, returned false
FailedOnFull ==
    /\ calls >= Size
    /\ Len(accepted) >= Size - 1
    /\ \A i \in 1..(Size - 1) : accepted[i] = i
    /\ Size \notin Range(accepted)

\* C18: after a publish has failed on the full buffer, one iteration of the
\* consumer loop reads the oldest tick and size() is capacity() - 1; the
\* next publish passes the full test and returns true, size() is capacity()
\* again, and dropped_count_ is still 1.
C18_ReadFreesOneSlot ==
    /\ []((FailedOnFull /\ ppc[1] = "idle" /\ Len(ReadSeq) = 1) =>
            /\ ReadSeq = <<1>>
            /\ calls = Size =>
                  /\ size = capacity - 1
                  /\ dropped_count_ = 1
            /\ (calls = Size + 1 /\ Len(accepted) = Size) =>
                  /\ p_result[1]
                  /\ accepted[Size] = Size + 1
                  /\ size = capacity
                  /\ dropped_count_ = 1)
    /\ [][(/\ FailedOnFull
           /\ Len(ReadSeq) = 1
           /\ calls = Size
           /\ ppc[1] = "w_check"
           /\ ppc'[1] # "w_check") => ppc'[1] = "w_construct"]_vars

\* C18 witness: the publish after the failed one and after one whole
\* iteration of the loop has returned true and the buffer is full again
C18_Witness ==
    /\ FailedOnFull
    /\ ppc[1] = "idle"
    /\ calls = Size + 1
    /\ Len(accepted) = Size
    /\ Len(ReadSeq) = 1
    /\ processed_count_ = 1
    /\ is_full
    /\ dropped_count_ = 1

\* this step is the return of reset_counters
ResetReturns == rpc = "dropped" /\ rpc' = "idle"

\* the three getters return 0
CountersZero ==
    /\ published_count_ = 0
    /\ processed_count_ = 0
    /\ dropped_count_ = 0

\* C19 as stated: when reset_counters returns, and before any further
\* publish or consumer step, the three counters read 0.
C19_Original == [][ResetReturns => CountersZero']_vars

\* C19 amended: the three counters read 0 after reset_counters has returned
\* as long as no publish call has returned and no tick has been counted
\* since reset_counters was called.
C19_Amended ==
    /\ [][(ResetReturns /\ Increments = r_mark) => CountersZero']_vars
    /\ []((rpc = "idle" /\ r_mark >= 0 /\ Increments = r_mark)
            => CountersZero)

\* C19 witness: a reset has returned after publishes of both outcomes and a
\* processed tick, nothing was counted since it began, and a tick is unread
C19_Witness ==
    /\ rpc = "idle"
    /\ r_mark = Increments
    /\ CountersZero
    /\ Len(accepted) >= 1
    /\ calls > Len(accepted)
    /\ Events("done") # {}
    /\ ~is_empty

\* C20: the processing delay is never negative: set_processing_delay_ms
\* stores 0 for a negative argument and the argument itself otherwise.
C20_DelayClamped ==
    /\ processing_delay_ms_ >= 0
    /\ delay_arg < 0 => processing_delay_ms_ = 0
    /\ delay_arg >= 0 => processing_delay_ms_ = delay_arg

\* C20 witness: a negative argument was stored as 0 after the loop had
\* slept for a positive delay
C20_Witness ==
    /\ delay_arg < 0
    /\ processing_delay_ms_ = 0
    /\ c_slept

\* C21: process_messages returns only from a loop test that finds the run
\* flag clear, and that step reads nothing and leaves the buffer as it is;
\* an iteration begins only at a loop test that finds the flag set, so after
\* the flag is cleared the iteration in progress is the last one, and the
\* loop does return.
C21_CooperativeStop ==
    /\ [][/\ (cpc' = "returned" /\ cpc # "returned")
               => (cpc = "check" /\ ~should_continue)
          /\ (cpc = "check" /\ cpc' # "check" /\ ~should_continue)
               => (cpc' = "returned" /\ UNCHANGED <<ring, clog, counters>>)
          /\ (cpc' = "r_cmp" /\ cpc # "r_cmp")
               => (cpc = "check" /\ should_continue)
          /\ (cpc \notin {"idle", "check"} /\ cpc' # cpc)
               => cpc' \notin {"r_cmp", "returned"}
       ]_vars
    /\ (~should_continue) ~> (cpc = "returned")

\* C21 witness: the loop has returned after it delivered a tick, and a tick
\* published before the return is left in the buffer
C21_Witness ==
    /\ cpc = "returned"
    /\ Events("done") # {}
    /\ ~is_empty
    /\ ~should_continue

\* ~RingBuffer is running
InRingDestructor == bpc \in {"d_loop", "d_slot"}

\* ~RingBuffer has returned
RingDestroyed == bpc \in {"d_unmap", "d_close", "d_unlink", "gone"}

\* C22: while the ring buffer's destructor runs the region is mapped, open
\* and linked; when it has finished the read index equals the write index
\* and the slots it destroyed are the slots that were live, each once; the
\* region is unmapped and the name removed only after that, and no step
\* touches a slot or an index while the region is not mapped.
C22_TeardownOrder ==
    /\ [](InRingDestructor =>
            /\ data_ = "mapped"
            /\ fd_ # -1
            /\ linked
            /\ ring_buffer_ = "placed"
            /\ IsPrefix(destroyed, d_live))
    /\ [](RingDestroyed =>
            /\ read_index_ = write_index_
            /\ destroyed = d_live
            /\ ring_buffer_ = "null"
            /\ \A i, j \in 1..Len(destroyed) :
                  i # j => destroyed[i] # destroyed[j])
    /\ [][/\ (data_ = "mapped" /\ data_' # "mapped") => RingDestroyed
          /\ (bpc \notin {"c_unlink"} /\ linked /\ ~linked')
               => (RingDestroyed /\ data_ # "mapped")
          /\ data_ # "mapped"
               => UNCHANGED <<ring, producerVars, consumerVars, destroyed>>
       ]_vars

\* C22 witness: the bus is gone; the consumer had read ticks, and the ring
\* buffer's destructor destroyed live slots on both sides of the wrap
C22_Witness ==
    /\ bpc = "gone"
    /\ Events("read") # {}
    /\ \E i \in 1..(Len(destroyed) - 1) :
          /\ destroyed[i] = Size - 1
          /\ destroyed[i + 1] = 0

\* the members of a bus on which no operation has run
Untouched ==
    /\ \A p \in AllProducers : ppc[p] = "idle"
    /\ cpc = "idle"
    /\ calls = 0
    /\ assigned = <<>>
    /\ clog = <<>>
    /\ subscribers_ = NoSubscribers
    /\ read_index_ = 0
    /\ write_index_ = 0

\* C23: a failure of shm_open, ftruncate or mmap ends the construction: the
\* descriptor is closed, no ring buffer is placed, and no step of the bus
\* runs afterwards;
\* a ring buffer is placed only in a region that is open and mapped, and
\* publish, subscribe and the consumer loop run only on a constructed bus.
C23_ConstructionFailure ==
    /\ [](bpc = "failed" =>
            /\ ring_buffer_ = "null"
            /\ data_ # "mapped"
            /\ fd_ = -1
            /\ Untouched)
    /\ [](ring_buffer_ = "placed" =>
            /\ data_ = "mapped"
            /\ fd_ # -1
            /\ linked)
    /\ [][/\ bpc = "failed"
               => UNCHANGED <<ring, lifeVars, producerVars, consumerVars,
                              subscribers_, sequence_, counters, history>>
          /\ (bpc = "c_open" /\ bpc' # bpc) =>
                \/ fd_' # -1 /\ bpc' = "c_size"
                \/ fd_' = -1 /\ bpc' = "failed"
          /\ (bpc = "c_size" /\ bpc' # bpc) =>
                \/ fd_' # -1 /\ bpc' = "c_map"
                \/ fd_' = -1 /\ bpc' = "failed"
          /\ (bpc = "c_map" /\ bpc' # bpc) =>
                \/ data_' = "mapped" /\ bpc' = "c_zero"
                \/ data_' = "MAP_FAILED" /\ fd_' = -1 /\ bpc' = "failed"
          /\ bpc # "alive"
               => UNCHANGED <<producerVars, consumerVars, subscribers_,
                              sequence_, counters>>
       ]_vars

\* C23 witness: the mapping failed after the object was created and sized
C23_Witness ==
    /\ bpc = "failed"
    /\ data_ = "MAP_FAILED"
    /\ linked

\* the sequence numbers of the items in the slots a read can still reach
LiveSeqs ==
    {buffer_[i].seq : i \in Range(LiveSlots(read_index_, write_index_))}

\* the tick numbered s has not been read and is in no slot a read can reach
Unreadable(s) == s \notin Range(ReadSeq) /\ s \notin LiveSeqs

\* the first two calls of publish ran at once: their calls of write computed
\* the same next write position, passed the full test, and have both stored
\* it in the write index
BothStored(p, q) ==
    /\ p # q
    /\ Len(assigned) = 2
    /\ ppc[p] = "count"
    /\ ppc[q] = "count"
    /\ p_next_write[p] = p_next_write[q]

\* the tick numbered s is the one of such a pair that no read can reach
LostInRace(s) ==
    \E p, q \in AllProducers :
       /\ BothStored(p, q)
       /\ s = p_wrapper[p].seq
       /\ Unreadable(s)

\* C24: when the first two calls of publish run at once and their calls of
\* write compute the same next write position, both return true and leave
\* the write index at that one position; of their two items exactly one is
\* in no slot that a read can reach, and that one is never read, whatever is
\* published afterwards.
C24_LostSlot ==
    /\ [](\A p, q \in AllProducers :
            BothStored(p, q) =>
               /\ write_index_ = p_next_write[p]
               /\ Unreadable(p_wrapper[p].seq) # Unreadable(p_wrapper[q].seq))
    /\ [][\A p \in AllProducers :
            (ppc[p] = "count" /\ ppc'[p] # "count")
               => /\ p_result'[p] = TRUE
                  /\ accepted' = Append(accepted, p_wrapper[p].seq)
                  /\ published_count_' = published_count_ + 1
         ]_vars
    /\ \A s \in 1..MaxPublishRace : [](LostInRace(s) => []Unreadable(s))

\* C24 witness: two publish calls have returned true, the write index is 1,
\* both items were constructed in slot 0, one tick was read and processed
\* and the buffer is empty
C24_Witness ==
    /\ \A p \in AllProducers : ppc[p] = "idle" /\ p_result[p]
    /\ Len(accepted) = 2
    /\ published_count_ = 2
    /\ write_index_ = 1
    /\ buffer_[1] = ZeroData
    /\ Len(ReadSeq) = 1
    /\ processed_count_ = 1
    /\ is_empty

\* C25: with one producer the slot the consumer is about to move from is
\* never the slot at the write index, where write constructs; the step that
\* stores the new write index finds the item of its call complete in the
\* slot; and every item read is the whole wrapper of one publish call.
C25_NoTornRead ==
    /\ [](/\ cpc = "r_move" => read_index_ # write_index_
          /\ \A j \in Events("read") :
                /\ clog[j].tick.seq \in 1..Len(inputs)
                /\ clog[j].tick =
                      MakeWrapper(inputs[clog[j].tick.seq], clog[j].tick.seq))
    /\ [][write_index_' # write_index_ =>
            /\ buffer_[write_index_] = p_wrapper[1]
            /\ buffer_' = buffer_
            /\ write_index_' = NextIndex(write_index_)
         ]_vars

\* C25 witness: the consumer is about to move an item out of one slot while
\* the producer is about to construct in another, the write index wrapped
C25_Witness ==
    /\ cpc = "r_move"
    /\ ppc[1] = "w_construct"
    /\ write_index_ < read_index_
    /\ Events("read") # {}

\* the iteration in progress found the buffer empty: read returned false and
\* left the local wrapper as it was constructed
FoundEmpty == cpc = "delay" /\ c_wrapper = ZeroData

\* C26: an iteration of the loop that finds the buffer empty does not sleep
\* for the processing delay, whatever the delay is; it goes back to the
\* test of the run flag.
C26_NoSleepOnEmpty ==
    [][(FoundEmpty /\ cpc' # cpc) => (cpc' = "check" /\ ~c_slept')]_vars

\* C28: whatever topic a tick was published under, the loop invokes with it
\* the callbacks registered under "market_data", each once, and no callback
\* registered under another topic.
C28_FixedTopic ==
    /\ \A j \in Events("call") :
          /\ clog[j].idx \in 1..Len(subscribers_["market_data"])
          /\ clog[j].cb = subscribers_["market_data"][clog[j].idx]
          /\ clog[j].cb \notin Range(subscribers_["other"])
    /\ \A j \in Events("done") :
          /\ clog[j].n = Len(subscribers_["market_data"])
          /\ \A i \in 1..Len(subscribers_["market_data"]) :
                CallCount(i, clog[j].tick.seq) = 1

\* C28 witness: a tick published under "other" was delivered to the callback
\* of "market_data" and counted, with a callback registered under "other"
C28_Witness ==
    /\ subscribers_["other"] # <<>>
    /\ \E j \in Events("done") :
          /\ clog[j].tick.source = OtherSource
          /\ clog[j - 1].kind = "call"
          /\ clog[j - 1].cb = subscribers_["market_data"][1]
          /\ clog[j - 1].tick.source = OtherSource

\* the number of invocations of the callback cb with the tick numbered s
InvocationsOf(cb, s) ==
    Cardinality({j \in Events("call") :
                   clog[j].cb = cb /\ clog[j].tick.seq = s})

\* C29: every change of the registry appends one entry at the end of the
\* list of one topic during a subscribe call for that topic, so the length
\* of each list is the number of subscribe calls for its topic, and a tick
\* is delivered to a callback once for each of its entries in the list.
C29_AppendOnly ==
    /\ [][\A t \in Topics :
            subscribers_'[t] # subscribers_[t] =>
              /\ \E cb \in Callbacks :
                    subscribers_'[t] = Append(subscribers_[t], cb)
              /\ sub_calls'[t] = sub_calls[t] + 1
              /\ \A u \in Topics \ {t} : subscribers_'[u] = subscribers_[u]]_vars
    /\ [](\A t \in Topics : Len(subscribers_[t]) = sub_calls[t])
    /\ [](\A j \in Events("done") :
            /\ clog[j].n <= Len(subscribers_["market_data"])
            /\ \A cb \in Callbacks :
                  InvocationsOf(cb, clog[j].tick.seq) =
                    Cardinality({i \in 1..clog[j].n :
                                   subscribers_["market_data"][i] = cb}))

\* C29 witness: one callback was subscribed twice under "market_data" and
\* was invoked twice with one tick
C29_Witness ==
    /\ sub_calls["market_data"] = 2
    /\ subscribers_["market_data"] = <<1, 1>>
    /\ \E j \in Events("done") :
          /\ clog[j].n = 2
          /\ InvocationsOf(1, clog[j].tick.seq) = 2

\* the closure of session s is invoked in this step
InvokedFor(s) ==
    /\ Len(clog') = Len(clog) + 1
    /\ clog'[Len(clog')].kind = "call"
    /\ clog'[Len(clog')].cb = Closure(s)

\* C30: the closure of a session stays in the registry when its connection
\* has closed, and every tick processed is still delivered to every entry of
\* the registry; an invocation for a closed connection only posts a task,
\* and no step appends to the outgoing queue of a closed connection or
\* issues a write on it.
C30_ClosureOutlivesConnection ==
    /\ [][\A s \in Sessions :
            /\ Closure(s) \in Range(subscribers_["market_data"])
                 => Closure(s) \in Range(subscribers_'["market_data"])
            /\ (Faulted(s) /\ InvokedFor(s)) =>
                 /\ posted' = Append(posted, [session |-> s,
                                              msg |-> ToJson(c_data)])
                 /\ UNCHANGED <<outgoing_messages_, queued, issued, writing,
                                write_in_progress_>>
            /\ Faulted(s) =>
                 /\ outgoing_messages_'[s] = outgoing_messages_[s]
                 /\ queued'[s] = queued[s]
                 /\ issued'[s] = issued[s]
         ]_vars
    /\ [](\A j \in Events("done") :
            /\ clog[j].n <= Len(subscribers_["market_data"])
            /\ \A i \in 1..clog[j].n : CallCount(i, clog[j].tick.seq) = 1)

\* C30 witness: the connection of session 2 was closed with nothing queued;
\* its closure is in the registry and was invoked with both ticks, the
\* tasks it posted have run, and its queue is empty, while session 1 has
\* both ticks queued
C30_Witness ==
    /\ ws_[2] = "closed"
    /\ ws_[1] = "open"
    /\ Closure(2) \in Range(subscribers_["market_data"])
    /\ Len(DeliveredTo(2)) = MaxPublishServer
    /\ Cardinality(Events("done")) = MaxPublishServer
    /\ posted = <<>>
    /\ queued[2] = <<>>
    /\ outgoing_messages_[2] = <<>>
    /\ issued[2] = <<>>
    /\ Len(queued[1]) = MaxPublishServer

\* C27: in the server every change of the subscriber registry is made
\* before process_messages starts, or while the consumer loop is not inside
\* its lookup and iteration of the callback list.
C27_RegistrationSynchronized ==
    [][subscribers_' # subscribers_ =>
         \/ cpc = "idle"
         \/ cpc \notin {"convert", "notify"}]_vars

\* the consumer thread takes this step
ConsumerStep == cpc' # cpc \/ c_idx' # c_idx

\* the write state of the sessions: the queues, the in-flight flags and the
\* writes issued
WriteState == <<outgoing_messages_, write_in_progress_, writing, issued,
                written, queued>>

\* C31: a step of the consumer thread, the invocation of a session's closure
\* included, leaves every session's outgoing queue and in-flight flag as
\* they are and issues no write; all it does to a session is post one task.
\* The queue and the flag change only in steps of the io_context thread: a
\* posted task, or the completion handler of a write.
C31_ClosureOnlyPosts ==
    [][/\ ConsumerStep =>
            /\ UNCHANGED WriteState
            /\ posted' # posted =>
                  \E s \in Sessions :
                     /\ InvokedFor(s)
                     /\ posted' = Append(posted, [session |-> s,
                                                  msg |-> ToJson(c_data)])
       /\ \A s \in Sessions :
            (\/ outgoing_messages_'[s] # outgoing_messages_[s]
             \/ write_in_progress_'[s] # write_in_progress_[s]
             \/ issued'[s] # issued[s]) =>
               /\ ~ConsumerStep
               /\ IoThreadFree
               /\ \/ /\ posted # <<>>
                     /\ Head(posted).session = s
                     /\ posted' = Tail(posted)
                  \/ /\ writing[s] > 0
                     /\ Len(written'[s]) = Len(written[s]) + 1
      ]_vars

\* C31 witness: the closure of session 1 has just been invoked while a write
\* of that session is in flight: its task is the last one posted and the
\* queue holds only the message being written
C31_Witness ==
    /\ clog # <<>>
    /\ clog[Len(clog)].kind = "call"
    /\ clog[Len(clog)].cb = Closure(1)
    /\ posted # <<>>
    /\ posted[Len(posted)] = [session |-> 1,
                              msg |-> ToJson(clog[Len(clog)].tick)]
    /\ write_in_progress_[1]
    /\ writing[1] = 1
    /\ Len(outgoing_messages_[1]) = 1
    /\ outgoing_messages_[1][1] # posted[Len(posted)].msg

\* a thread is inside reset_counters, after its first store
MidReset == rpc \in {"processed", "dropped"}

\* C32: reset_counters zeroes published_count_, then processed_count_, then
\* dropped_count_, each in a step of its own that leaves the other two
\* counters as they are, so between the stores published_count_ is 0 beside
\* the old values of the counters not stored yet.
C32_ThreeStores ==
    /\ [][/\ (rpc = "idle" /\ rpc' = "processed") =>
              /\ published_count_' = 0
              /\ UNCHANGED <<processed_count_, dropped_count_>>
          /\ (rpc = "processed" /\ rpc' = "dropped") =>
              /\ processed_count_' = 0
              /\ UNCHANGED <<published_count_, dropped_count_>>
          /\ (rpc = "dropped" /\ rpc' = "idle") =>
              /\ dropped_count_' = 0
              /\ UNCHANGED <<published_count_, processed_count_>>
          /\ rpc' # rpc =>
              <<rpc, rpc'>> \in {<<"idle", "processed">>,
                                 <<"processed", "dropped">>,
                                 <<"dropped", "idle">>}
         ]_vars
    /\ []((MidReset /\ Increments = r_mark) => published_count_ = 0)

\* C32 witness: inside a reset published_count_ is 0 while processed_count_
\* and dropped_count_ still hold the non-zero values they had before it
C32_Witness ==
    /\ rpc = "processed"
    /\ Increments = r_mark
    /\ published_count_ = 0
    /\ processed_count_ > 0
    /\ processed_count_ = Cardinality(Events("done"))
    /\ dropped_count_ > 0
    /\ dropped_count_ = calls - Len(accepted)

\* this step is the return of a successful write
WriteSucceeds == ppc[1] = "w_store" /\ ppc'[1] = "count"

\* this step is the return of a successful read
ReadSucceeds == cpc = "r_store" /\ cpc' = "convert"

\* C33: with one producer and one consumer both indices stay in [0, N) and
\* size() is (write - read) mod N and at most N - 1; a successful write
\* advances the write index, and nothing but it, by one modulo N, a
\* successful read does the same to the read index, and no other step
\* changes an index.
C33_IndexInvariant ==
    /\ [](/\ read_index_ \in 0..(Size - 1)
          /\ write_index_ \in 0..(Size - 1)
          /\ size = (write_index_ - read_index_ + Size) % Size
          /\ size <= Size - 1)
    /\ [][/\ WriteSucceeds =>
              /\ write_index_' = (write_index_ + 1) % Size
              /\ read_index_' = read_index_
              /\ size' = size + 1
          /\ ReadSucceeds =>
              /\ read_index_' = (read_index_ + 1) % Size
              /\ write_index_' = write_index_
              /\ size' = size - 1
          /\ write_index_' # write_index_ => WriteSucceeds
          /\ read_index_' # read_index_ => ReadSucceeds
         ]_vars

\* C33 witness: both indices have wrapped around and one item is unread
C33_Witness ==
    /\ Len(accepted) > Size
    /\ Len(ReadSeq) >= Size
    /\ write_index_ = Len(accepted) % Size
    /\ read_index_ = Len(ReadSeq) % Size
    /\ write_index_ = read_index_ + 1
    /\ size = 1

\* the slots that hold an item written and not yet read
Unread == Range(LiveSlots(read_index_, write_index_))

\* the consumer is inside read, past the test for empty: it is moving the
\* item out of the slot at the read index or has just done so
MovingOut == cpc \in {"r_move", "r_store"}

\* C34: with one producer and one consumer the slot in which write
\* constructs holds no unread item and is not the slot the consumer is
\* moving out, and no step changes an unread slot; the read index advances
\* only after the item of its slot was moved out; and write refuses when
\* the successor of the write index is the read index.
C34_NoOverwrite ==
    /\ [](/\ ppc[1] = "w_construct" =>
                /\ write_index_ \notin Unread
                /\ MovingOut => write_index_ # read_index_
          /\ MovingOut => read_index_ \in Unread)
    /\ [][/\ \A i \in Unread : buffer_'[i] = buffer_[i]
          /\ MovingOut => buffer_'[read_index_] = buffer_[read_index_]
          /\ read_index_' # read_index_ =>
                /\ cpc = "r_store"
                /\ c_wrapper = buffer_[read_index_]
          /\ (/\ ppc[1] = "w_check"
              /\ ppc'[1] # "w_check"
              /\ NextIndex(write_index_) = read_index_) =>
                /\ ppc'[1] = "drop"
                /\ buffer_' = buffer_
         ]_vars

\* C34 witness: the producer is about to construct in the last free slot
\* while the consumer is moving the oldest item out of its slot, after the
\* write index has wrapped around
C34_Witness ==
    /\ ppc[1] = "w_construct"
    /\ cpc = "r_move"
    /\ size = capacity - 1
    /\ Len(accepted) >= Size
    /\ buffer_[write_index_].seq > 0
    /\ buffer_[write_index_].seq \in Range(ReadSeq)

\* reset_counters has never been called
NeverReset == rpc = "idle" /\ r_mark = -1

\* no publish call is in progress
NoPublishInProgress == \A p \in AllProducers : ppc[p] = "idle"

\* the consumer loop is between two iterations, or not running
NoIterationInProgress == cpc \in {"idle", "check", "returned"}

\* C35: with one producer and one consumer, while no publish call and no
\* iteration of the consumer loop is in progress and reset_counters has
\* never been called, published_count_ is processed_count_ + size().
C35_CountersBalance ==
    (NoPublishInProgress /\ NoIterationInProgress /\ NeverReset)
       => published_count_ = processed_count_ + size

\* C35 witness: between a publish and an iteration, with no reset so far,
\* ticks were published, dropped and processed and some are unread
C35_Witness ==
    /\ NoPublishInProgress
    /\ cpc = "check"
    /\ NeverReset
    /\ processed_count_ >= 1
    /\ size >= 2
    /\ dropped_count_ >= 1
    /\ published_count_ = processed_count_ + size

\* the sequence numbers of the ticks the first callback of the list was
\* invoked with, in the order of the invocations
DeliveredSeqs ==
    LET cs == SelectSeq(clog, LAMBDA e : e.kind = "call" /\ e.idx = 1)
    IN  [i \in 1..Len(cs) |-> cs[i].tick.seq]

\* C36: every publish call takes a sequence number and a failed one keeps
\* it: while no publish is in progress and reset_counters has never been
\* called, the last sequence number assigned is published_count_ +
\* dropped_count_; the numbers of the delivered ticks increase, and the
\* number of a failed publish is never delivered.
C36_SequenceConsumed ==
    /\ []((NoPublishInProgress /\ NeverReset) =>
             sequence_ = published_count_ + dropped_count_)
    /\ [](\A i, j \in 1..Len(DeliveredSeqs) :
             i < j => DeliveredSeqs[i] < DeliveredSeqs[j])
    /\ [](Range(DeliveredSeqs) \subseteq
             Range(accepted) \cup
               (IF ppc[1] = "count" THEN {p_wrapper[1].seq} ELSE {}))
    /\ [][/\ (ppc[1] = "idle" /\ ppc'[1] # "idle") =>
               sequence_' = sequence_ + 1
          /\ (ppc[1] = "drop" /\ ppc'[1] = "idle") =>
               /\ sequence_' = sequence_
               /\ p_wrapper[1].seq = sequence_
               /\ sequence_ \notin Range(accepted')
         ]_vars

\* C36 witness: with no reset so far, a publish failed on the full buffer
\* and the ticks published before and after it were delivered: the numbers
\* delivered skip the one the failed publish took
C36_Witness ==
    /\ NoPublishInProgress
    /\ NeverReset
    /\ dropped_count_ >= 1
    /\ sequence_ = published_count_ + dropped_count_
    /\ \E i \in 1..(Len(DeliveredSeqs) - 1) :
          /\ DeliveredSeqs[i + 1] = DeliveredSeqs[i] + 2
          /\ (DeliveredSeqs[i] + 1) \in Range(assigned)
          /\ (DeliveredSeqs[i] + 1) \notin Range(accepted)

\* this step is one of the stores of reset_counters
ResetStep == rpc' # rpc

\* C37: a step of reset_counters changes nothing but the three counters:
\* the sequence counter, the indices and slots of the ring buffer, the
\* processing delay and the registry stay as they are.  So the sequence
\* numbers assigned are 1, 2, 3, ... across resets, and the ticks unread at
\* a reset are read afterwards in the order in which they were accepted.
C37_ResetFrame ==
    /\ [][ResetStep =>
            UNCHANGED <<ring, sequence_, processing_delay_ms_, subscribers_,
                        should_continue, producerVars, consumerVars,
                        history, inputs>>]_vars
    /\ [](\A i \in 1..Len(assigned) : assigned[i] = i)
    /\ [](sequence_ = Len(assigned))
    /\ [](IsPrefix(ReadSeq, AcceptedOrInFlight))
    /\ [](size + Len(ReadSeq) = Len(AcceptedOrInFlight))

\* C37 witness: a reset that began after three publish calls and before any
\* tick was processed has returned; the publish after it got the number 4,
\* and the three ticks that were unread at the reset have been processed
C37_Witness ==
    /\ rpc = "idle"
    /\ r_mark = 3
    /\ NoPublishInProgress
    /\ accepted = <<1, 2, 3, 4>>
    /\ published_count_ = 1
    /\ processed_count_ = 3
    /\ ReadSeq = <<1, 2, 3>>
    /\ dropped_count_ = 0
    /\ Cardinality(Events("done")) = 3

\* the ticks whose iteration ended without a callback to invoke
Undelivered == {j \in Events("done") : clog[j].n = 0}

\* C38: a tick the loop reads while the list of "market_data" is empty is
\* taken out of the buffer and counted as processed like any other; it is
\* read once and no callback, whenever subscribed, is invoked with it.
C38_NotRetained ==
    /\ [](\A j \in Undelivered :
            /\ ReadCount(clog[j].tick.seq) = 1
            /\ \A i \in Unread : buffer_[i].seq # clog[j].tick.seq
            /\ \A k \in Events("call") :
                  clog[k].tick.seq # clog[j].tick.seq)
    /\ [][(cpc = "notify" /\ c_end = 0 /\ cpc' # cpc) =>
            /\ cpc' = "delay"
            /\ processed_count_' = processed_count_ + 1
            /\ Len(clog') = Len(clog) + 1
            /\ clog'[Len(clog')].kind = "done"
            /\ clog'[Len(clog')].n = 0
            /\ c_data.seq \in Range(ReadSeq)
         ]_vars

\* C38 witness: the first tick was processed with no callback registered; a
\* callback subscribed afterwards has received the second tick and not the
\* first, and both ticks are counted
C38_Witness ==
    /\ \E j \in Undelivered : clog[j].tick.seq = 1
    /\ subscribers_["market_data"] # <<>>
    /\ DeliveredSeqs = <<2>>
    /\ processed_count_ = 2
    /\ is_empty
    /\ Len(accepted) = 2

\* C39: whatever size the bus is constructed with, the default argument
\* included, the region is at least as large as the ring buffer placed in
\* it, so that every slot and both indices lie inside the mapping.
C39_RegionHoldsRing ==
    (ring_buffer_ = "placed" \/ bpc \in {"c_ring", "alive"})
       => size_ >= SizeofRingBuffer

\* on_write was called with an error on session s: a write that was issued
\* is neither outstanding nor completed
WriteFaulted(s) == Len(issued[s]) # Len(written[s]) + writing[s]

\* the step removes the front of the queue of session s
FrontRemoved(s) ==
    /\ outgoing_messages_[s] # <<>>
    /\ ~IsPrefix(outgoing_messages_[s], outgoing_messages_'[s])

\* C40: for a session that has had no write fault, between the handlers of
\* the event loop the in-flight flag is set exactly when the outgoing queue
\* is not empty; while it is set the front of the queue is the message being
\* written, and the front is removed only by the completion handler of its
\* own write.
C40_FlagTracksQueue ==
    /\ [](\A s \in Sessions :
            ~WriteFaulted(s) =>
               /\ write_in_progress_[s] <=> outgoing_messages_[s] # <<>>
               /\ write_in_progress_[s] =>
                     /\ writing[s] = 1
                     /\ Head(outgoing_messages_[s]) = issued[s][Len(issued[s])])
    /\ [][\A s \in Sessions :
            (~WriteFaulted(s) /\ FrontRemoved(s)) =>
               /\ writing[s] = 1
               /\ written'[s] = Append(written[s], Head(outgoing_messages_[s]))
               /\ outgoing_messages_'[s] = Tail(outgoing_messages_[s])
         ]_vars

\* C40 witness: on session 1 a write completed and the next message, the
\* front of the queue, is being written; on session 2 the completion of a
\* write found the queue empty and cleared the flag
C40_Witness ==
    /\ ~WriteFaulted(1)
    /\ Len(written[1]) >= 1
    /\ write_in_progress_[1]
    /\ Len(issued[1]) = 2
    /\ outgoing_messages_[1] = <<issued[1][2]>>
    /\ ~WriteFaulted(2)
    /\ Len(written[2]) >= 1
    /\ ~write_in_progress_[2]
    /\ outgoing_messages_[2] = <<>>

====
